---- MODULE Spec2Model ----
(***************************************************************************)
(* A model of dagbldr's layer library (src/dagbldr/nodes/layers.py): the   *)
(* graph, a caller-owned ordered mapping from names to registered tensors, *)
(* the caller's numpy random source, and the layer builders that read and  *)
(* extend them.  The helpers that layers.py imports from dagbldr.utils     *)
(* (names_in_graph, add_arrays_to_graph, add_fixed_to_graph,               *)
(* add_random_to_graph, fetch_from_graph, calc_expected_dims, concatenate) *)
(* are modelled from their contract in spec.md section 4.1.  The last part *)
(* models the download cache of src/dagbldr/datasets/datasets.py.          *)
(***************************************************************************)
EXTENDS Integers, Sequences, FiniteSets, TLC

VARIABLES
    graph,         \* the OrderedDict: a sequence of entries, insertion order
    random_state,  \* the caller's np.random.RandomState: values drawn so far
    last,          \* the last builder call: its arguments and its outcome
    ncalls,        \* number of builder calls made so far
    scan,          \* a running theano.scan: its data and its outputs so far
    twin,          \* a second run of the same script, when two are compared
    files,         \* the data directories: what exists at each path
    fetch,         \* the last check_fetch_* call: what it found and did
    dataset        \* the last dataset load: the text it read and its result

vars ==
    <<graph, random_state, last, ncalls, scan, twin, files, fetch, dataset>>

\* ------------------------------------------------------------------ bounds

\* Builder calls made by one script run.
MaxCalls == 2

\* Timesteps of one scan.
MaxT == 5

\* check_fetch_* calls made by one process.
MaxFetches == 3

\* Lines of one bAbI task file.
MaxLines == 4

\* ---------------------------------------------------------------- tensors

\* An absent optional argument (Python's None) is the empty sequence, a
\* supplied one the one-element sequence.
None == <<>>

Some(v) == <<v>>

\* The dataset tensors a script registers before it builds layers
\* (add_datasets_to_graph): name, theano ndim and dtype, declared shape.
Datasets ==
    << [name |-> "X3", ndim |-> 2, dtype |-> "float32", shape |-> <<2, 3>>],
       [name |-> "X5", ndim |-> 2, dtype |-> "float32", shape |-> <<2, 5>>],
       [name |-> "S3", ndim |-> 3, dtype |-> "float32", shape |-> <<3, 2, 3>>],
       [name |-> "Q4", ndim |-> 4, dtype |-> "float32", shape |-> <<3, 2, 2, 2>>],
       [name |-> "I1", ndim |-> 1, dtype |-> "int32", shape |-> <<2>>],
       [name |-> "F1", ndim |-> 1, dtype |-> "float32", shape |-> <<2>>] >>

DatasetNamed(n) == CHOOSE d \in {Datasets[i] : i \in DOMAIN Datasets} : d.name = n

\* A symbolic tensor handed to a builder.
Tensor(n) ==
    LET d == DatasetNamed(n)
    IN  [kind |-> "dataset", name |-> n, ndim |-> d.ndim, dtype |-> d.dtype,
         shape |-> d.shape]

NoTensor == [kind |-> "none"]

\* --------------------------------------------------------------- registry

DatasetEntry(d) ==
    [name |-> d.name, kind |-> "dataset", shape |-> d.shape,
     val |-> [init |-> "data", at |-> 0]]

\* add_datasets_to_graph: one Dataset node per array, in order.
add_datasets_to_graph(ds) == [i \in DOMAIN ds |-> DatasetEntry(ds[i])]

GraphNames(g) == {g[i].name : i \in DOMAIN g}

\* names_in_graph: true iff every name of the list is present.
names_in_graph(names, g) ==
    \A i \in DOMAIN names : names[i] \in GraphNames(g)

EntryOf(g, n) == g[CHOOSE i \in DOMAIN g : g[i].name = n]

\* A faulty insertion that, when not strict, binds a present name to the new
\* array in place.
RECURSIVE AddEntriesRebinding(_, _, _, _, _)
AddEntriesRebinding(arrays, names, kind, g, strict) ==
    IF arrays = <<>> THEN [g |-> g, err |-> "none"]
    ELSE LET e == [name |-> names[1], kind |-> kind,
                   shape |-> arrays[1].shape, val |-> arrays[1].val]
         IN  IF names[1] \in GraphNames(g)
             THEN IF strict THEN [g |-> g, err |-> "DuplicateName"]
                  ELSE AddEntriesRebinding(
                           Tail(arrays), Tail(names), kind,
                           [i \in DOMAIN g |->
                               IF g[i].name = names[1] THEN e ELSE g[i]],
                           strict)
             ELSE AddEntriesRebinding(Tail(arrays), Tail(names), kind,
                                      Append(g, e), strict)

\* The insertion contract shared by add_arrays_to_graph, add_fixed_to_graph
\* and add_random_to_graph: entries are taken in order; an absent name is
\* inserted, a present one fails (duplicate under strict, unsupported
\* re-registration otherwise) and leaves what was inserted before it.
RECURSIVE AddEntries(_, _, _, _, _)
AddEntries(arrays, names, kind, g, strict) ==
    IF arrays = <<>> THEN [g |-> g, err |-> "none"]
    ELSE IF names[1] \in GraphNames(g)
         THEN [g |-> g,
               err |-> IF strict THEN "DuplicateName" ELSE "UnsupportedReuse"]
         ELSE AddEntries(Tail(arrays), Tail(names), kind,
                         Append(g, [name |-> names[1], kind |-> kind,
                                    shape |-> arrays[1].shape,
                                    val |-> arrays[1].val]),
                         strict)

add_arrays_to_graph(arrays, names, g, strict) ==
    AddEntries(arrays, names, "learned", g, strict)

add_fixed_to_graph(arrays, names, g, strict) ==
    AddEntries(arrays, names, "fixed", g, strict)

add_random_to_graph(arrays, names, g) ==
    AddEntries(arrays, names, "random", g, TRUE)

\* fetch_from_graph: the registered tensor of each name, in order; the
\* caller checks FetchFails first (a missing name raises).
FetchFails(names, g) == ~names_in_graph(names, g)

fetch_from_graph(names, g) == [i \in DOMAIN names |-> EntryOf(g, names[i])]

\* calc_expected_dims: the declared shape of a tensor.
calc_expected_dims(g, t) == t.shape

LastDim(s) == s[Len(s)]

RECURSIVE SumLastDims(_, _)
SumLastDims(g, inputs) ==
    IF inputs = <<>> THEN 0
    ELSE LastDim(calc_expected_dims(g, inputs[1])) + SumLastDims(g, Tail(inputs))

\* concatenate along the last axis: the other axes are those of the first
\* input, the last is the sum of the inputs' last dimensions.
concatenate(inputs, g, name) ==
    LET s0 == inputs[1].shape
    IN  [kind |-> "concat", name |-> name, ndim |-> inputs[1].ndim,
         dtype |-> inputs[1].dtype,
         shape |-> [i \in DOMAIN s0 |->
                      IF i = Len(s0) THEN SumLastDims(g, inputs) ELSE s0[i]],
         of |-> [i \in DOMAIN inputs |-> inputs[i].name]]

\* ----------------------------------------------------------- initializers

RECURSIVE Prod(_)
Prod(s) == IF s = <<>> THEN 1 ELSE s[1] * Prod(Tail(s))

\* An array is its shape and where its values come from: the initializer
\* and the position of the random source at which it drew.
Array(shape, init, at) == [shape |-> shape, val |-> [init |-> init, at |-> at]]

Advance(rs, n) == [rs EXCEPT !.pos = @ + n]

\* np_zeros draws nothing.
np_zeros(shape) == Array(shape, "zeros", 0)

\* np_rand, np_randn, np_tanh_fan, np_sigmoid_fan draw one value per element.
np_rand(shape, rs) ==
    [arr |-> Array(shape, "rand", rs.pos), rs |-> Advance(rs, Prod(shape))]

np_randn(shape, rs) ==
    [arr |-> Array(shape, "randn", rs.pos), rs |-> Advance(rs, Prod(shape))]

np_tanh_fan(shape, rs) ==
    [arr |-> Array(shape, "tanh_fan", rs.pos), rs |-> Advance(rs, Prod(shape))]

np_sigmoid_fan(shape, rs) ==
    LET t == np_tanh_fan(shape, rs)
    IN  [arr |-> Array(shape, "sigmoid_fan", rs.pos), rs |-> t.rs]

\* np_ortho draws a normal matrix of the shape and keeps the left factor of
\* its SVD, which is square in the first dimension.
np_ortho(shape, rs) ==
    [arr |-> Array(<<shape[1], shape[1]>>, "ortho", rs.pos),
     rs |-> Advance(rs, Prod(shape))]

InitFuncs == {"np_rand", "np_tanh_fan", "np_sigmoid_fan"}

ApplyInit(f, shape, rs) ==
    CASE f = "np_rand" -> np_rand(shape, rs)
      [] f = "np_randn" -> np_randn(shape, rs)
      [] f = "np_tanh_fan" -> np_tanh_fan(shape, rs)
      [] f = "np_sigmoid_fan" -> np_sigmoid_fan(shape, rs)
      [] f = "np_ortho" -> np_ortho(shape, rs)

\* ------------------------------------------------------ builder outcomes

\* What a builder call leaves behind: the graph, the random source, the
\* error it raised ("none" when it returned) and the tensor it returned.
Raise(g, rs, e) == [g |-> g, rs |-> rs, err |-> e, out |-> NoTensor]

Return(g, rs, t) == [g |-> g, rs |-> rs, err |-> "none", out |-> t]

\* The same for a builder that takes no random source.
Fail(g, e) == [g |-> g, err |-> e, out |-> NoTensor]

Done(g, t) == [g |-> g, err |-> "none", out |-> t]

WithRs(r, rs) == [g |-> r.g, rs |-> rs, err |-> r.err, out |-> r.out]

\* ------------------------------------------------------ feed-forward

\* A faulty strict check, which never raises.
StrictCheckOff(strict) == "none"

\* A faulty strict check, which rejects registered names in either mode.
StrictCheckRejecting(strict) ==
    IF strict THEN "DuplicateName" ELSE "UnsupportedReuse"

\* The else branch of "if not names_in_graph(...)" in projection_layer,
\* embedding_layer and the recurrent builders: every name is registered;
\* strict raises, non-strict goes on to fetch what is registered.
StrictCheck(strict) == IF strict THEN "DuplicateName" ELSE "none"

\* A faulty first use, which registers the bias before it asserts.
projection_create_late_assert(inputs, g, name, proj_dim, rs, have_rs, strict, init_func) ==
    LET b == np_zeros(<<IF proj_dim = None THEN 0 ELSE proj_dim[1]>>)
        a == add_arrays_to_graph(<<b>>, <<name \o "_b">>, g, strict)
    IN  [g |-> a.g, rs |-> rs,
         err |-> IF proj_dim = None \/ ~have_rs THEN "AssertionError" ELSE a.err]

\* A faulty first use, which sizes the weight by the first input alone.
projection_create_first_input(inputs, g, name, proj_dim, rs, have_rs, strict, init_func) ==
    IF proj_dim = None \/ ~have_rs
    THEN [g |-> g, rs |-> rs, err |-> "AssertionError"]
    ELSE LET conc_input_dim == LastDim(calc_expected_dims(g, inputs[1]))
             W == ApplyInit(init_func, <<conc_input_dim, proj_dim[1]>>, rs)
             b == np_zeros(<<proj_dim[1]>>)
             a == add_arrays_to_graph(<<W.arr, b>>,
                                      <<name \o "_W", name \o "_b">>, g, strict)
         IN  [g |-> a.g, rs |-> W.rs, err |-> a.err]

\* projection_layer, first use: proj_dim and the random source are asserted,
\* then the weight is drawn and both arrays are registered.
projection_create(inputs, g, name, proj_dim, rs, have_rs, strict, init_func) ==
    IF proj_dim = None \/ ~have_rs
    THEN [g |-> g, rs |-> rs, err |-> "AssertionError"]
    ELSE LET conc_input_dim == SumLastDims(g, inputs)
             W == ApplyInit(init_func, <<conc_input_dim, proj_dim[1]>>, rs)
             b == np_zeros(<<proj_dim[1]>>)
             a == add_arrays_to_graph(<<W.arr, b>>,
                                      <<name \o "_W", name \o "_b">>, g, strict)
         IN  [g |-> a.g, rs |-> W.rs, err |-> a.err]

\* projection_layer, after the names are settled: fetch, concatenate,
\* func(dot(conc_input, W) + b).
projection_output(inputs, g, rs, name, func) ==
    LET list_of_names == <<name \o "_W", name \o "_b">>
    IN  IF FetchFails(list_of_names, g) THEN Raise(g, rs, "MissingName")
        ELSE LET Wb == fetch_from_graph(list_of_names, g)
                 conc == concatenate(inputs, g, name)
             IN  Return(g, rs,
                        [kind |-> "projection", name |-> name,
                         func |-> func, W |-> Wb[1], b |-> Wb[2],
                         of |-> conc.of, ndim |-> conc.ndim,
                         dtype |-> "float32",
                         shape |-> [i \in DOMAIN conc.shape |->
                                      IF i = Len(conc.shape)
                                      THEN LastDim(Wb[1].shape)
                                      ELSE conc.shape[i]]])

\* A faulty projection_layer, which in non-strict mode creates the
\* parameters anew instead of fetching the registered ones.
projection_layer_recreate(inputs, g, name, proj_dim, rs, have_rs, strict, init_func, func) ==
    IF ~names_in_graph(<<name \o "_W", name \o "_b">>, g) \/ ~strict
    THEN LET c == projection_create(inputs, g, name, proj_dim, rs, have_rs,
                                    strict, init_func)
         IN  IF c.err # "none" THEN Raise(c.g, c.rs, c.err)
             ELSE projection_output(inputs, c.g, c.rs, name, func)
    ELSE Raise(g, rs, "DuplicateName")

\* projection_layer: parameters are created on first use; on a later use a
\* strict call raises and a non-strict call fetches the registered ones.
projection_layer(inputs, g, name, proj_dim, rs, have_rs, strict, init_func, func) ==
    IF ~names_in_graph(<<name \o "_W", name \o "_b">>, g)
    THEN LET c == projection_create(inputs, g, name, proj_dim, rs, have_rs,
                                    strict, init_func)
         IN  IF c.err # "none" THEN Raise(c.g, c.rs, c.err)
             ELSE projection_output(inputs, c.g, c.rs, name, func)
    ELSE IF StrictCheck(strict) # "none" THEN Raise(g, rs, StrictCheck(strict))
         ELSE projection_output(inputs, g, rs, name, func)

\* The specializations fix func and the default init_func.
linear_layer(inputs, g, name, proj_dim, rs, have_rs, strict) ==
    projection_layer(inputs, g, name, proj_dim, rs, have_rs, strict,
                     "np_tanh_fan", "linear")

sigmoid_layer(inputs, g, name, proj_dim, rs, have_rs, strict) ==
    projection_layer(inputs, g, name, proj_dim, rs, have_rs, strict,
                     "np_sigmoid_fan", "sigmoid")

tanh_layer(inputs, g, name, proj_dim, rs, have_rs, strict) ==
    projection_layer(inputs, g, name, proj_dim, rs, have_rs, strict,
                     "np_tanh_fan", "tanh")

softplus_layer(inputs, g, name, proj_dim, rs, have_rs, strict) ==
    projection_layer(inputs, g, name, proj_dim, rs, have_rs, strict,
                     "np_tanh_fan", "softplus")

exp_layer(inputs, g, name, proj_dim, rs, have_rs, strict) ==
    projection_layer(inputs, g, name, proj_dim, rs, have_rs, strict,
                     "np_tanh_fan", "exp")

relu_layer(inputs, g, name, proj_dim, rs, have_rs, strict) ==
    projection_layer(inputs, g, name, proj_dim, rs, have_rs, strict,
                     "np_tanh_fan", "relu")

softmax_layer(inputs, g, name, proj_dim, rs, have_rs, strict) ==
    projection_layer(inputs, g, name, proj_dim, rs, have_rs, strict,
                     "np_tanh_fan", "softmax")

Specializations ==
    {"linear_layer", "sigmoid_layer", "tanh_layer", "softplus_layer",
     "exp_layer", "relu_layer", "softmax_layer"}

Specialized(layer, inputs, g, name, proj_dim, rs, have_rs, strict) ==
    CASE layer = "linear_layer" ->
           linear_layer(inputs, g, name, proj_dim, rs, have_rs, strict)
      [] layer = "sigmoid_layer" ->
           sigmoid_layer(inputs, g, name, proj_dim, rs, have_rs, strict)
      [] layer = "tanh_layer" ->
           tanh_layer(inputs, g, name, proj_dim, rs, have_rs, strict)
      [] layer = "softplus_layer" ->
           softplus_layer(inputs, g, name, proj_dim, rs, have_rs, strict)
      [] layer = "exp_layer" ->
           exp_layer(inputs, g, name, proj_dim, rs, have_rs, strict)
      [] layer = "relu_layer" ->
           relu_layer(inputs, g, name, proj_dim, rs, have_rs, strict)
      [] layer = "softmax_layer" ->
           softmax_layer(inputs, g, name, proj_dim, rs, have_rs, strict)

\* The output of fixed_projection_layer: dot(conc_input + t_pre, W) + t_post.
fixed_projection_output(conc_input, name, f) ==
    [kind |-> "fixed_projection", name |-> name,
     W |-> f[1], pre |-> f[2], post |-> f[3],
     of |-> conc_input.of, ndim |-> conc_input.ndim, dtype |-> "float32",
     shape |-> [i \in DOMAIN conc_input.shape |->
                  IF i = Len(conc_input.shape) THEN LastDim(f[1].shape)
                  ELSE conc_input.shape[i]]]

\* A faulty fixed_projection_layer that registers the two offsets as learned
\* parameters.
fixed_projection_layer_learned_offsets(inputs, transform, g, name, pre, post, strict) ==
    LET conc_input == concatenate(inputs, g, name)
        list_of_names == <<name \o "_W", name \o "_pre", name \o "_post">>
    IN  IF ~names_in_graph(list_of_names, g)
        THEN LET conc_input_dim == SumLastDims(g, inputs)
                 np_W == Array(transform.shape, "transform", 0)
                 np_pre == IF pre = None
                           THEN Array(<<conc_input_dim>>, "zeros", 0)
                           ELSE pre[1]
                 np_post == IF post = None
                            THEN Array(Tail(np_W.shape), "zeros", 0)
                            ELSE post[1]
                 w == add_fixed_to_graph(<<np_W>>, <<list_of_names[1]>>, g,
                                         strict)
                 a == IF w.err # "none" THEN w
                      ELSE add_arrays_to_graph(<<np_pre, np_post>>,
                                               Tail(list_of_names), w.g,
                                               strict)
             IN  IF a.err # "none" THEN Fail(a.g, a.err)
                 ELSE Done(a.g,
                           fixed_projection_output(
                               conc_input, name,
                               fetch_from_graph(list_of_names, a.g)))
        ELSE IF strict THEN Fail(g, "DuplicateName")
             ELSE Fail(g, "UnsupportedReuse")

\* fixed_projection_layer: transform is the caller's matrix; pre and post
\* are optional caller arrays, zeros when absent.
fixed_projection_layer(inputs, transform, g, name, pre, post, strict) ==
    LET conc_input == concatenate(inputs, g, name)
        list_of_names == <<name \o "_W", name \o "_pre", name \o "_post">>
    IN  IF ~names_in_graph(list_of_names, g)
        THEN LET conc_input_dim == SumLastDims(g, inputs)
                 np_W == Array(transform.shape, "transform", 0)
                 np_pre == IF pre = None
                           THEN Array(<<conc_input_dim>>, "zeros", 0)
                           ELSE pre[1]
                 np_post == IF post = None
                            THEN Array(Tail(np_W.shape), "zeros", 0)
                            ELSE post[1]
                 a == add_fixed_to_graph(<<np_W, np_pre, np_post>>,
                                         list_of_names, g, strict)
             IN  IF a.err # "none" THEN Fail(a.g, a.err)
                 ELSE Done(a.g,
                           fixed_projection_output(
                               conc_input, name,
                               fetch_from_graph(list_of_names, a.g)))
        ELSE IF strict THEN Fail(g, "DuplicateName")
             ELSE Fail(g, "UnsupportedReuse")

\* A faulty embedding_layer that creates and registers the embedding matrix
\* before it looks at the index inputs.
embedding_layer_late_check(index_inputs, max_index, proj_dim, g, name, rs, have_rs, strict, init_func) ==
    LET check_type == \E i \in DOMAIN index_inputs : index_inputs[i].dtype # "int32"
        check_dim == \E i \in DOMAIN index_inputs : index_inputs[i].ndim # 1
        list_of_names == <<name \o "_embedding_W">>
        finish(g2, rs2) ==
            IF check_type \/ check_dim THEN Raise(g2, rs2, "IndexType")
            ELSE LET W == fetch_from_graph(list_of_names, g2)[1]
                 IN  Return(g2, rs2,
                            [kind |-> "embedding", name |-> name, W |-> W,
                             of |-> [i \in DOMAIN index_inputs |->
                                       index_inputs[i].name],
                             ndim |-> 3, dtype |-> "float32",
                             shape |-> <<index_inputs[1].shape[1],
                                         Len(index_inputs), proj_dim>>])
    IN  IF ~names_in_graph(list_of_names, g)
        THEN IF ~have_rs THEN Raise(g, rs, "AssertionError")
             ELSE LET W == ApplyInit(init_func, <<max_index, proj_dim>>, rs)
                      a == add_arrays_to_graph(<<W.arr>>, list_of_names, g, strict)
                  IN  IF a.err # "none" THEN Raise(a.g, W.rs, a.err)
                      ELSE finish(a.g, W.rs)
        ELSE IF StrictCheck(strict) # "none"
             THEN Raise(g, rs, StrictCheck(strict))
             ELSE finish(g, rs)

\* embedding_layer: the index inputs are checked first; the embedding matrix
\* is created when its name is absent; the output is the lookups, one per
\* index input, reshaped to (-1, n_lists, proj_dim).
embedding_layer(index_inputs, max_index, proj_dim, g, name, rs, have_rs, strict, init_func) ==
    LET check_type == \E i \in DOMAIN index_inputs : index_inputs[i].dtype # "int32"
        check_dim == \E i \in DOMAIN index_inputs : index_inputs[i].ndim # 1
        list_of_names == <<name \o "_embedding_W">>
        finish(g2, rs2) ==
            IF FetchFails(list_of_names, g2) THEN Raise(g2, rs2, "MissingName")
            ELSE LET W == fetch_from_graph(list_of_names, g2)[1]
                     n_lists == Len(index_inputs)
                 IN  Return(g2, rs2,
                            [kind |-> "embedding", name |-> name, W |-> W,
                             of |-> [i \in DOMAIN index_inputs |->
                                       index_inputs[i].name],
                             ndim |-> 3, dtype |-> "float32",
                             shape |-> <<index_inputs[1].shape[1], n_lists,
                                         proj_dim>>])
    IN  IF check_type \/ check_dim THEN Raise(g, rs, "IndexType")
        ELSE IF ~names_in_graph(list_of_names, g)
        THEN IF ~have_rs THEN Raise(g, rs, "AssertionError")
             ELSE LET W == ApplyInit(init_func, <<max_index, proj_dim>>, rs)
                      a == add_arrays_to_graph(<<W.arr>>, list_of_names, g, strict)
                  IN  IF a.err # "none" THEN Raise(a.g, W.rs, a.err)
                      ELSE finish(a.g, W.rs)
        ELSE IF StrictCheck(strict) # "none"
             THEN Raise(g, rs, StrictCheck(strict))
             ELSE finish(g, rs)

\* ------------------------------------------------------------------ seeds

\* Seeds range beyond 32 bits (randint(-2**32, 2**32)); an integer n is
\* kept as the pair h, l with n = h * 65536 + l and 0 <= l < 65536.
Wide(n) == [h |-> n \div 65536, l |-> n % 65536]

WZero == [h |-> 0, l |-> 0]

WNeg(w) ==
    IF w.l = 0 THEN [h |-> 0 - w.h, l |-> 0]
    ELSE [h |-> 0 - w.h - 1, l |-> 65536 - w.l]

WPred(w) ==
    IF w.l = 0 THEN [h |-> w.h - 1, l |-> 65535] ELSE [h |-> w.h, l |-> w.l - 1]

WLess(a, b) == a.h < b.h \/ (a.h = b.h /\ a.l < b.l)

WLeq(a, b) == a = b \/ WLess(a, b)

\* The bound of the first draw, random_state.randint(-2147462579, 2147462579).
SeedBound == 2147462579

\* 2**32, the bound of the redraw.
TwoTo32 == [h |-> 65536, l |-> 0]

\* The values random_state.randint(low, high) may return, low <= v < high:
\* the two ends of the range and 0.
randint(low, high) == {low, WZero, WPred(high)}

FirstDraws == randint(WNeg(Wide(SeedBound)), Wide(SeedBound))

Redraws == randint(WNeg(TwoTo32), TwoTo32)

\* What the random source returns to one seed derivation: a first draw and,
\* when that is 0, a redraw (no second call is made otherwise).
SeedDraws == {d \in FirstDraws \X Redraws : d[1] = WZero \/ d[2] = WZero}

\* The seed derivation every stochastic layer repeats: draw, and redraw once
\* when the draw is 0.  first and second are the values the random source
\* returns to the first and (if made) the second randint call.
theano_seed(rs, first, second) ==
    IF first = WZero
    THEN [seed |-> second, rs |-> Advance(rs, 2)]
    ELSE [seed |-> first, rs |-> Advance(rs, 1)]

\* MRG_RandomStreams(seed=...) followed by one draw of the given kind.
Noise(seed, dist, shape) ==
    [kind |-> "noise", seed |-> seed, dist |-> dist, shape |-> shape]

\* ---------------------------------------------------------------- dropout

\* X *= theano_rng.binomial(shape, p=retain_prob) ** on_off_switch followed
\* by X /= retain_prob: the tensor dropout returns when p > 0.
Dropped(X, seed, noise_shape, on_off_switch, retain_prob) ==
    [kind |-> "dropout", x |-> X,
     keep |-> Noise(seed, "binomial", noise_shape),
     switch |-> on_off_switch, retain |-> retain_prob,
     ndim |-> X.ndim, dtype |-> X.dtype, shape |-> X.shape]

\* A faulty dropout, which treats every rank other than 2 as rank 3.
dropout_any_rank(X, rs, have_rs, on_off_switch, p, draws) ==
    IF p > 0
    THEN IF ~have_rs THEN Raise(<<>>, rs, "NoRandomSource") @@ [seeds |-> <<>>]
         ELSE LET s == theano_seed(rs, draws[1], draws[2])
                  shape == IF X.ndim = 2 THEN X.shape ELSE Tail(X.shape)
              IN  Return(<<>>, s.rs,
                         Dropped(X, s.seed, shape, on_off_switch, 100 - p))
                  @@ [seeds |-> <<s.seed>>]
    ELSE Return(<<>>, rs, X) @@ [seeds |-> <<>>]

\* dropout: p is in percent; draws are the values the random source returns.
dropout(X, rs, have_rs, on_off_switch, p, draws) ==
    IF p > 0
    THEN IF ~have_rs THEN Raise(<<>>, rs, "NoRandomSource") @@ [seeds |-> <<>>]
         ELSE LET s == theano_seed(rs, draws[1], draws[2])
                  retain_prob == 100 - p
              IN  IF X.ndim = 2
                  THEN Return(<<>>, s.rs,
                              Dropped(X, s.seed, X.shape, on_off_switch,
                                      retain_prob))
                       @@ [seeds |-> <<s.seed>>]
                  ELSE IF X.ndim = 3
                  THEN Return(<<>>, s.rs,
                              Dropped(X, s.seed, Tail(X.shape), on_off_switch,
                                      retain_prob))
                       @@ [seeds |-> <<s.seed>>]
                  ELSE Raise(<<>>, s.rs, "Rank") @@ [seeds |-> <<s.seed>>]
    ELSE Return(<<>>, rs, X) @@ [seeds |-> <<>>]

\* binomial ** on_off_switch for one unit: the mask value 0 or 1 raised to
\* the switch, with 0 ** 0 = 1 as pow computes it.
SwitchedMask(keep, on_off_switch) ==
    IF on_off_switch = 0 THEN 1 ELSE keep

\* The value (in hundredths) of one unit of a tensor dropout returned, from
\* the unit's input value x and the unit's binomial draw keep.
dropout_value(t, x, keep) ==
    IF t.kind = "dropout"
    THEN (x * SwitchedMask(keep, t.switch) * 100) \div t.retain
    ELSE x

\* dropout_layer: draws a seed of its own (which it never uses), then
\* concatenates and calls dropout with the same random source.
dropout_layer(inputs, g, name, on_off_switch, dropout_prob, rs, have_rs, draws) ==
    IF ~have_rs THEN Raise(g, rs, "NoRandomSource") @@ [seeds |-> <<>>]
    ELSE LET s == theano_seed(rs, draws[1], draws[2])
             conc_input == concatenate(inputs, g, name)
             dropped == dropout(conc_input, s.rs, have_rs, on_off_switch,
                                dropout_prob, <<draws[3], draws[4]>>)
         IN  [g |-> g, rs |-> dropped.rs, err |-> dropped.err,
              out |-> dropped.out, seeds |-> dropped.seeds]

\* ------------------------------------------------------ stochastic layers

\* softmax_sample_layer
softmax_sample_layer(inputs, g, name, rs, have_rs, draws) ==
    IF ~have_rs THEN Raise(g, rs, "NoRandomSource") @@ [seeds |-> <<>>]
    ELSE LET s == theano_seed(rs, draws[1], draws[2])
             conc_multinomial == concatenate(inputs, g, name)
             shape == calc_expected_dims(g, conc_multinomial)
             samp == Noise(s.seed, "multinomial", shape)
             a == add_random_to_graph(<<Array(shape, "multinomial", 0)>>,
                                      <<name \o "_random">>, g)
         IN  IF a.err # "none"
             THEN Raise(a.g, s.rs, a.err) @@ [seeds |-> <<s.seed>>]
             ELSE Return(a.g, s.rs,
                         [kind |-> "softmax_sample", name |-> name,
                          p |-> conc_multinomial, n |-> Len(inputs),
                          e |-> samp, ndim |-> conc_multinomial.ndim,
                          dtype |-> "int32", shape |-> shape])
                  @@ [seeds |-> <<s.seed>>]

\* gaussian_sample_layer (log = FALSE) and gaussian_log_sample_layer
\* (log = TRUE) differ only in the returned expression.
GaussianSample(mu_inputs, sigma_inputs, g, name, rs, have_rs, draws, log) ==
    IF ~have_rs THEN Raise(g, rs, "NoRandomSource") @@ [seeds |-> <<>>]
    ELSE LET s == theano_seed(rs, draws[1], draws[2])
             conc_mu == concatenate(mu_inputs, g, name)
             conc_sigma == concatenate(sigma_inputs, g, name)
             e == Noise(s.seed, "normal",
                        <<conc_sigma.shape[1], conc_sigma.shape[2]>>)
             shape == calc_expected_dims(g, conc_mu)
             a == add_random_to_graph(<<Array(shape, "normal", 0)>>,
                                      <<name \o "_random">>, g)
         IN  IF a.err # "none"
             THEN Raise(a.g, s.rs, a.err) @@ [seeds |-> <<s.seed>>]
             ELSE Return(a.g, s.rs,
                         [kind |-> IF log THEN "gaussian_log_sample"
                                   ELSE "gaussian_sample",
                          name |-> name, mu |-> conc_mu, sigma |-> conc_sigma,
                          e |-> e, ndim |-> conc_mu.ndim, dtype |-> "float32",
                          shape |-> shape])
                  @@ [seeds |-> <<s.seed>>]

gaussian_sample_layer(mu_inputs, sigma_inputs, g, name, rs, have_rs, draws) ==
    GaussianSample(mu_inputs, sigma_inputs, g, name, rs, have_rs, draws, FALSE)

gaussian_log_sample_layer(mu_inputs, sigma_inputs, g, name, rs, have_rs, draws) ==
    GaussianSample(mu_inputs, sigma_inputs, g, name, rs, have_rs, draws, TRUE)

\* ------------------------------------------------------ recurrent builders

\* np.hstack of n arrays drawn one after the other by the same initializer
\* with the same shape (n = 1: the array itself); np_zeros draws nothing.
Stacked(f, shape, n, rs) ==
    IF f = "np_zeros" THEN [arr |-> np_zeros(shape), rs |-> rs]
    ELSE LET one == ApplyInit(f, shape, rs)
             s == one.arr.shape
         IN  [arr |-> Array(IF n = 1 THEN s ELSE <<s[1], n * s[2]>>,
                            one.arr.val.init, rs.pos),
              rs |-> Advance(rs, n * Prod(shape))]

\* The arrays of a weight set, drawn in the order the builder creates them.
RECURSIVE InitAll(_, _)
InitAll(specs, rs) ==
    IF specs = <<>> THEN [arrs |-> <<>>, rs |-> rs]
    ELSE LET a == Stacked(specs[1].f, specs[1].shape, specs[1].n, rs)
             rest == InitAll(Tail(specs), a.rs)
         IN  [arrs |-> <<a.arr>> \o rest.arrs, rs |-> rest.rs]

W1(f, shape) == [f |-> f, shape |-> shape, n |-> 1]

WN(f, shape, n) == [f |-> f, shape |-> shape, n |-> n]

Suffixed(name, suffixes) == [i \in DOMAIN suffixes |-> name \o suffixes[i]]

RankCheckFails(g, inputs) ==
    \E i \in DOMAIN inputs : Len(calc_expected_dims(g, inputs[i])) # 3

\* The part tanh_recurrent_layer, gru_recurrent_layer and
\* lstm_recurrent_layer share: the rank check, the zero initial states
\* (registered with add_arrays_to_graph's default strictness), then the
\* weight set, created when some name of it is absent.
SimpleRecurrent(cell, states, suffixes, specs, inputs, mask, hidden_dim, g, name, rs, have_rs, strict) ==
    IF RankCheckFails(g, inputs) THEN Raise(g, rs, "Rank")
    ELSE
    LET conc_input == concatenate(inputs, g, name \o "_input")
        shape == calc_expected_dims(g, conc_input)
        state_names == Suffixed(name, states)
        a0 == add_arrays_to_graph(
                  [i \in DOMAIN states |-> np_zeros(<<shape[2], hidden_dim>>)],
                  state_names, g, TRUE)
        list_of_names == Suffixed(name, suffixes)
        finish(g2, rs2) ==
            Return(g2, rs2,
                   [kind |-> "scan", cell |-> cell, name |-> name,
                    params |-> fetch_from_graph(list_of_names, g2),
                    h0 |-> fetch_from_graph(state_names, g2),
                    of |-> conc_input.of, ndim |-> 3, dtype |-> "float32",
                    shape |-> <<shape[1], shape[2], hidden_dim>>])
    IN  IF a0.err # "none" THEN Raise(a0.g, rs, a0.err)
        ELSE IF ~names_in_graph(list_of_names, a0.g)
        THEN IF ~have_rs THEN Raise(a0.g, rs, "AssertionError")
             ELSE LET w == InitAll(specs, rs)
                      a == add_arrays_to_graph(w.arrs, list_of_names, a0.g, strict)
                  IN  IF a.err # "none" THEN Raise(a.g, w.rs, a.err)
                      ELSE finish(a.g, w.rs)
        ELSE IF StrictCheck(strict) # "none"
             THEN Raise(a0.g, rs, StrictCheck(strict))
             ELSE finish(a0.g, rs)

\* tanh_recurrent_layer
tanh_recurrent_layer(inputs, mask, hidden_dim, g, name, rs, have_rs, strict) ==
    LET d == SumLastDims(g, inputs)
    IN  SimpleRecurrent("tanh", <<"_h0">>,
            <<"_tanh_rec_step_W", "_tanh_rec_step_b", "_tanh_rec_step_U">>,
            <<W1("np_rand", <<d, hidden_dim>>),
              W1("np_zeros", <<hidden_dim>>),
              W1("np_ortho", <<hidden_dim, hidden_dim>>)>>,
            inputs, mask, hidden_dim, g, name, rs, have_rs, strict)

\* gru_recurrent_layer
gru_recurrent_layer(inputs, mask, hidden_dim, g, name, rs, have_rs, strict) ==
    LET d == SumLastDims(g, inputs)
    IN  SimpleRecurrent("gru", <<"_h0">>,
            <<"_gru_rec_step_W", "_gru_rec_step_b", "_gru_rec_step_Urz",
              "_gru_rec_step_U">>,
            <<WN("np_rand", <<d, hidden_dim>>, 3),
              W1("np_zeros", <<3 * hidden_dim>>),
              WN("np_ortho", <<hidden_dim, hidden_dim>>, 2),
              W1("np_ortho", <<hidden_dim, hidden_dim>>)>>,
            inputs, mask, hidden_dim, g, name, rs, have_rs, strict)

\* t[::-1]: the tensor read backwards along its first axis.
Reversed(t) == [t EXCEPT !.name = @ \o "[::-1]"]

\* A faulty bidirectional builder that, when the backward GRU fails, takes
\* the forward GRU's entries out of the graph again.
bidirectional_gru_recurrent_layer_rollback(inputs, mask, hidden_dim, g, name, rs, have_rs, strict) ==
    LET h_f == gru_recurrent_layer(inputs, mask, hidden_dim, g,
                                   name \o "_f", rs, have_rs, strict)
        h_r == gru_recurrent_layer(
                   [i \in DOMAIN inputs |-> Reversed(inputs[i])],
                   mask \o "[::-1]", hidden_dim, h_f.g, name \o "_r",
                   h_f.rs, have_rs, strict)
    IN  IF h_f.err # "none" THEN h_f
        ELSE IF h_r.err # "none" THEN Raise(g, h_r.rs, h_r.err)
        ELSE Return(h_r.g, h_r.rs,
                    concatenate(<<h_f.out, Reversed(h_r.out)>>, h_r.g,
                                name \o "_conc"))

\* bidirectional_gru_recurrent_layer: a forward GRU name_f, a backward GRU
\* name_r on the reversed inputs and mask, and the two outputs concatenated
\* along the last axis.
bidirectional_gru_recurrent_layer(inputs, mask, hidden_dim, g, name, rs, have_rs, strict) ==
    LET h_f == gru_recurrent_layer(inputs, mask, hidden_dim, g,
                                   name \o "_f", rs, have_rs, strict)
        h_r == gru_recurrent_layer(
                   [i \in DOMAIN inputs |-> Reversed(inputs[i])],
                   mask \o "[::-1]", hidden_dim, h_f.g, name \o "_r",
                   h_f.rs, have_rs, strict)
    IN  IF h_f.err # "none" THEN h_f
        ELSE IF h_r.err # "none" THEN h_r
        ELSE Return(h_r.g, h_r.rs,
                    concatenate(<<h_f.out, Reversed(h_r.out)>>, h_r.g,
                                name \o "_conc"))

\* lstm_recurrent_layer
lstm_recurrent_layer(inputs, mask, hidden_dim, g, name, rs, have_rs, strict) ==
    LET d == SumLastDims(g, inputs)
    IN  SimpleRecurrent("lstm", <<"_h0", "_c0">>,
            <<"_lstm_rec_step_W", "_lstm_rec_step_b", "_lstm_rec_step_U">>,
            <<WN("np_rand", <<d, hidden_dim>>, 4),
              W1("np_zeros", <<4 * hidden_dim>>),
              WN("np_ortho", <<hidden_dim, hidden_dim>>, 4)>>,
            inputs, mask, hidden_dim, g, name, rs, have_rs, strict)

MaxNdim(ts) ==
    CHOOSE n \in {ts[i].ndim : i \in DOMAIN ts} :
        \A i \in DOMAIN ts : ts[i].ndim <= n

\* The part the two conditional builders share.  The rank check rejects
\* only ndim > 3.  The initial state is a tanh_layer of the context, called
\* with tanh_layer's default strict=True; the decoder weights follow.  A
\* target sequence of rank below 3 passes the check and reaches the scan,
\* where slicing the per-step input x_t[:, a:b] is what fails.
Conditional(cell, context, suffixes, specs, conc_output, conc_hidden, g, name, rs, have_rs, strict) ==
    LET conc_hidden_dim == LastDim(calc_expected_dims(g, conc_hidden))
        h0 == tanh_layer(<<context>>, g, name \o "_h0_proj",
                         Some(conc_hidden_dim), rs, have_rs, TRUE)
        list_of_names == Suffixed(name, suffixes)
        finish(g2, rs2) ==
            IF conc_output.ndim # 3 THEN Raise(g2, rs2, "Engine")
            ELSE Return(g2, rs2,
                   [kind |-> "scan", cell |-> cell, name |-> name,
                    params |-> fetch_from_graph(list_of_names, g2),
                    h0 |-> <<h0.out>>,
                    of |-> conc_output.of, ndim |-> 3, dtype |-> "float32",
                    shape |-> <<conc_output.shape[1], h0.out.shape[1],
                                h0.out.shape[2]>>])
    IN  IF h0.err # "none" THEN Raise(h0.g, h0.rs, h0.err)
        ELSE IF ~names_in_graph(list_of_names, h0.g)
        THEN IF ~have_rs THEN Raise(h0.g, h0.rs, "AssertionError")
             ELSE LET w == InitAll(specs, h0.rs)
                      a == add_arrays_to_graph(w.arrs, list_of_names, h0.g, strict)
                  IN  IF a.err # "none" THEN Raise(a.g, w.rs, a.err)
                      ELSE finish(a.g, w.rs)
        ELSE IF StrictCheck(strict) # "none"
             THEN Raise(h0.g, h0.rs, StrictCheck(strict))
             ELSE finish(h0.g, h0.rs)

\* conc_hidden[-1] and conc_hidden.mean(axis=0): the first axis is gone.
DropFirstAxis(t, how) ==
    [kind |-> how, name |-> t.name, ndim |-> t.ndim - 1, dtype |-> t.dtype,
     shape |-> Tail(t.shape)]

\* conditional_gru_recurrent_layer
conditional_gru_recurrent_layer(outputs, hiddens, output_mask, hidden_dim, g, name, rs, have_rs, strict) ==
    IF MaxNdim(outputs) > 3 THEN Raise(g, rs, "Rank")
    ELSE
    LET conc_output == concatenate(outputs, g, name \o "_cond_gru_step")
        conc_hidden == concatenate(hiddens, g, name \o "_cond_gru_hid")
        context == DropFirstAxis(conc_hidden, "last")
        conc_input_dim == LastDim(calc_expected_dims(g, conc_output))
        context_dim == LastDim(calc_expected_dims(g, context))
    IN  Conditional("cond_gru", context,
            <<"_cond_gru_rec_step_W", "_cond_gru_rec_step_b",
              "_cond_gru_rec_step_Urz", "_cond_gru_rec_step_U",
              "_cond_gru_rec_step_Wg", "_cond_gru_rec_step_bg",
              "_cond_gru_rec_step_Wh", "_cond_gru_rec_step_bh">>,
            <<WN("np_rand", <<conc_input_dim, hidden_dim>>, 3),
              W1("np_zeros", <<3 * hidden_dim>>),
              WN("np_ortho", <<hidden_dim, hidden_dim>>, 2),
              W1("np_ortho", <<hidden_dim, hidden_dim>>),
              W1("np_rand", <<context_dim, 2 * hidden_dim>>),
              W1("np_zeros", <<2 * hidden_dim>>),
              W1("np_rand", <<context_dim, hidden_dim>>),
              W1("np_zeros", <<hidden_dim>>)>>,
            conc_output, conc_hidden, g, name, rs, have_rs, strict)

\* conditional_attention_gru_recurrent_layer: every weight is sized by the
\* encoder width conc_hidden_dim; hidden_dim is not read.
conditional_attention_gru_recurrent_layer(outputs, hiddens, output_mask, hidden_mask, hidden_dim, g, name, rs, have_rs, strict) ==
    IF MaxNdim(outputs) > 3 THEN Raise(g, rs, "Rank")
    ELSE
    LET conc_output == concatenate(outputs, g, name \o "_cond_gru_step")
        conc_hidden == concatenate(hiddens, g, name \o "_cond_gru_hid")
        context == DropFirstAxis(conc_hidden, "mean")
        conc_hidden_dim == LastDim(calc_expected_dims(g, conc_hidden))
        conc_input_dim == LastDim(calc_expected_dims(g, conc_output))
    IN  Conditional("att_gru", context,
            <<"_cond_gru_rec_step_W", "_cond_gru_rec_step_b",
              "_cond_gru_rec_step_Urz", "_cond_gru_rec_step_U",
              "_cond_gru_rec_step_W_cth", "_cond_gru_rec_step_W_ctc",
              "_cond_gru_step_Wi_att", "_cond_gru_step_Wc_att",
              "_cond_gru_step_b_att", "_cond_gru_step_Ws_att",
              "_cond_gru_step_Wp_att", "_cond_gru_step_bp_att">>,
            <<W1("np_rand", <<conc_input_dim, 3 * conc_hidden_dim>>),
              W1("np_zeros", <<3 * conc_hidden_dim>>),
              WN("np_ortho", <<conc_hidden_dim, conc_hidden_dim>>, 2),
              W1("np_ortho", <<conc_hidden_dim, conc_hidden_dim>>),
              W1("np_rand", <<conc_hidden_dim, 2 * conc_hidden_dim>>),
              W1("np_rand", <<conc_hidden_dim, conc_hidden_dim>>),
              W1("np_rand", <<conc_input_dim, conc_hidden_dim>>),
              W1("np_ortho", <<conc_hidden_dim, conc_hidden_dim>>),
              W1("np_zeros", <<conc_hidden_dim>>),
              W1("np_ortho", <<conc_hidden_dim, conc_hidden_dim>>),
              W1("np_rand", <<conc_hidden_dim, 1>>),
              W1("np_zeros", <<1>>)>>,
            conc_output, conc_hidden, g, name, rs, have_rs, strict)

\* ------------------------------------------------------------ scan values

\* The scans compute in floating point.  The model computes in fixed point:
\* One stands for 1.0, a product is rounded down to the next multiple of
\* 1/One, and NaN stands for every not-a-number.  NaN is absorbing, as in
\* IEEE arithmetic: 0 * NaN and NaN + x are NaN.
One == 8

NaN == -100000

Plus(a, b) == IF a = NaN \/ b = NaN THEN NaN ELSE a + b

Minus(a, b) == IF a = NaN \/ b = NaN THEN NaN ELSE a - b

Times(a, b) == IF a = NaN \/ b = NaN THEN NaN ELSE (a * b) \div One

Clip(lo, v, hi) == IF v < lo THEN lo ELSE IF v > hi THEN hi ELSE v

\* tensor.tanh: odd, increasing, saturating at -1 and 1.
tanh(a) == IF a = NaN THEN NaN ELSE Clip(-One, a, One)

\* tensor.nnet.sigmoid: increasing from 0 to 1, 0.5 at 0.
sigmoid(a) == IF a = NaN THEN NaN ELSE Clip(0, (a + 2 * One) \div 4, One)

\* tensor.exp on the attention scores: positive and increasing.  The scores
\* of the model stay within ExpRange of their maximum.
ExpRange == 12

exp(a) == 2 ^ (a + ExpRange)

\* Elementwise operations on one sample's row.
VPlus(a, b) == [j \in DOMAIN a |-> Plus(a[j], b[j])]

VTimes(a, b) == [j \in DOMAIN a |-> Times(a[j], b[j])]

VOneMinus(a) == [j \in DOMAIN a |-> Minus(One, a[j])]

VTanh(a) == [j \in DOMAIN a |-> tanh(a[j])]

VSigmoid(a) == [j \in DOMAIN a |-> sigmoid(a[j])]

RECURSIVE SumOver(_, _)
SumOver(v, n) == IF n = 0 THEN 0 ELSE Plus(SumOver(v, n - 1), v[n])

RECURSIVE MaxOver(_, _)
MaxOver(v, n) ==
    IF n = 1 THEN v[1]
    ELSE LET m == MaxOver(v, n - 1) IN IF v[n] > m THEN v[n] ELSE m

\* tensor.dot of one sample's row with a matrix given as its rows.
dot(v, M) ==
    [j \in 1..Len(M[1]) |->
        SumOver([k \in 1..Len(v) |-> Times(v[k], M[k][j])], Len(v))]

\* _slice(arr, n): the n-th block of dim columns.
_slice(arr, n, dim) == [j \in 1..dim |-> arr[n * dim + j]]

\* m_t[:, None] * h_ti + (1 - m_t)[:, None] * h_tm1, for one sample.
MaskBlend(m, h_ti, h_tm1) ==
    [j \in DOMAIN h_tm1 |->
        Plus(Times(m, h_ti[j]), Times(Minus(One, m), h_tm1[j]))]

\* ------------------------------------------------------------- scan inputs

\* The values of the data and of the registered parameters are whatever the
\* caller and training made them; the model takes them from a fixed
\* pattern.
Pattern == <<One, -One, 0, One \div 2, -(One \div 2)>>

Values(rows, cols, k) ==
    [r \in 1..rows |->
        [j \in 1..cols |-> Pattern[((k + 2 * r + 3 * j) % Len(Pattern)) + 1]]]

Zeros(rows, cols) == [r \in 1..rows |-> [j \in 1..cols |-> 0]]

\* Two samples per minibatch, two features per sample and timestep.
conc_input(X, t) == Values(2, 2, X + t)

\* The whole target sequence conc_output the conditional builders and
\* shift_layer are handed: MaxT timesteps.
conc_output(X) == [t \in 1..MaxT |-> conc_input(X, t)]

\* tensor.zeros_like of a sequence of minibatch rows.
zeros_like(seq) ==
    [t \in DOMAIN seq |->
        [i \in DOMAIN seq[t] |-> [j \in DOMAIN seq[t][i] |-> 0]]]

\* tensor.set_subtensor(x[1:], y): x with its timesteps from the second on
\* replaced by y.
set_subtensor(x, y) == [t \in DOMAIN x |-> IF t = 1 THEN x[t] ELSE y[t - 1]]

\* A faulty shift that rolls the sequence: the last timestep comes first.
shifted_rolled(seq) ==
    [t \in DOMAIN seq |-> IF t = 1 THEN seq[Len(seq)] ELSE seq[t - 1]]

\* shifted = zeros_like(conc_output); shifted[1:] = conc_output[:-1], as
\* shift_layer and the two conditional builders compute it.
shifted(seq) == set_subtensor(zeros_like(seq), SubSeq(seq, 1, Len(seq) - 1))

\* Timestep t of the decoder input.
input_shifted(X, t) == shifted(conc_output(X))[t]

\* The parameters of a cell with `gates` blocks of hidden_dim = 2 columns.
Params(gates) ==
    [W |-> Values(2, 2 * gates, 1),
     b |-> Values(1, 2 * gates, 2)[1],
     U |-> Values(2, 2 * gates, 3),
     Urz |-> Values(2, 4, 4)]

\* tensor.dot(conc_input, W) + b at one timestep.
projected_input(x, p) == [i \in DOMAIN x |-> VPlus(dot(x[i], p.W), p.b)]

\* The candidate matrix U of the GRU cells.
CandidateU == Values(2, 2, 5)

\* The encoder states the conditional cells read: two positions.
conc_hidden == << Values(2, 2, 6), Values(2, 2, 8) >>

\* conc_hidden[-1], and its projections to the gates and the candidate.
context == conc_hidden[Len(conc_hidden)]

projected_context_to_gates ==
    [i \in DOMAIN context |-> dot(context[i], Values(2, 4, 7))]

projected_context_to_hidden ==
    [i \in DOMAIN context |-> dot(context[i], Values(2, 2, 9))]

\* The attention parameters.
Attention ==
    [Wi_att |-> Values(2, 2, 10), Wc_att |-> Values(2, 2, 11),
     b_att |-> <<0, 0>>, Ws_att |-> Values(2, 2, 12),
     Wp_att |-> << <<One \div 2>>, <<-(One \div 4)>> >>, bp_att |-> 0,
     W_cth |-> Values(2, 4, 13), W_ctc |-> Values(2, 2, 14)]

projected_hidden_attention ==
    [p \in DOMAIN conc_hidden |->
        [i \in DOMAIN conc_hidden[p] |->
            VPlus(dot(conc_hidden[p][i], Attention.Wc_att), Attention.b_att)]]

projected_input_attention(x) ==
    [i \in DOMAIN x |-> dot(x[i], Attention.Wi_att)]

\* conc_hidden.mean(axis=0), the context of the attention cell's h0.
mean_context ==
    [i \in DOMAIN context |->
        [j \in DOMAIN context[i] |->
            SumOver([p \in DOMAIN conc_hidden |-> conc_hidden[p][i][j]],
                    Len(conc_hidden)) \div Len(conc_hidden)]]

\* h0: the registered zeros of the simple cells, the tanh projection of the
\* context for the conditional cells.
h0_sym(cell) ==
    LET c == IF cell = "att_gru" THEN mean_context ELSE context
    IN  IF cell \in {"tanh", "gru", "lstm"} THEN Zeros(2, 2)
        ELSE [i \in DOMAIN c |-> VTanh(dot(c[i], Values(2, 2, 15)))]

\* -------------------------------------------------------------- scan steps

\* tanh_recurrent_layer's step.
tanh_recurrent_step(x_t, m_t, h_tm1, U) ==
    [i \in DOMAIN h_tm1 |->
        LET h_ti == VTanh(VPlus(x_t[i], dot(h_tm1[i], U)))
        IN  MaskBlend(m_t[i], h_ti, h_tm1[i])]

\* A faulty step of gru_recurrent_layer in which the reset gate multiplies
\* the product of h_tm1 and U.
gru_recurrent_step_reset_after(x_t, m_t, h_tm1, U, Urz) ==
    [i \in DOMAIN h_tm1 |->
        LET dim == Len(h_tm1[i])
            projected_gates == dot(h_tm1[i], Urz)
            r == VSigmoid(VPlus(_slice(x_t[i], 0, dim),
                                _slice(projected_gates, 0, dim)))
            z == VSigmoid(VPlus(_slice(x_t[i], 1, dim),
                                _slice(projected_gates, 1, dim)))
            candidate_h_t == VTanh(VPlus(_slice(x_t[i], 2, dim),
                                         VTimes(r, dot(h_tm1[i], U))))
            h_ti == VPlus(VTimes(z, h_tm1[i]),
                          VTimes(VOneMinus(z), candidate_h_t))
        IN  MaskBlend(m_t[i], h_ti, h_tm1[i])]

\* gru_recurrent_layer's step: the reset gate multiplies h_tm1 before the
\* product with U.
gru_recurrent_step(x_t, m_t, h_tm1, U, Urz) ==
    [i \in DOMAIN h_tm1 |->
        LET dim == Len(h_tm1[i])
            projected_gates == dot(h_tm1[i], Urz)
            r == VSigmoid(VPlus(_slice(x_t[i], 0, dim),
                                _slice(projected_gates, 0, dim)))
            z == VSigmoid(VPlus(_slice(x_t[i], 1, dim),
                                _slice(projected_gates, 1, dim)))
            candidate_h_t == VTanh(VPlus(_slice(x_t[i], 2, dim),
                                         dot(VTimes(r, h_tm1[i]), U)))
            h_ti == VPlus(VTimes(z, h_tm1[i]),
                          VTimes(VOneMinus(z), candidate_h_t))
        IN  MaskBlend(m_t[i], h_ti, h_tm1[i])]

\* conditional_gru_recurrent_layer's step: the context enters the gates and
\* the candidate, and the reset gate multiplies the product of h_tm1 and U.
conditional_gru_step(x_t, m_t, h_tm1, U, Urz, pcg, pch) ==
    [i \in DOMAIN h_tm1 |->
        LET dim == Len(h_tm1[i])
            projected_gates == VPlus(dot(h_tm1[i], Urz), pcg[i])
            r == VSigmoid(VPlus(_slice(x_t[i], 0, dim),
                                _slice(projected_gates, 0, dim)))
            z == VSigmoid(VPlus(_slice(x_t[i], 1, dim),
                                _slice(projected_gates, 1, dim)))
            candidate_h_t ==
                VTanh(VPlus(VPlus(_slice(x_t[i], 2, dim),
                                  VTimes(r, dot(h_tm1[i], U))), pch[i]))
            h_ti == VPlus(VTimes(z, h_tm1[i]),
                          VTimes(VOneMinus(z), candidate_h_t))
        IN  MaskBlend(m_t[i], h_ti, h_tm1[i])]

\* lstm_recurrent_layer's step: the pair (h_t, c_t) of one sample.
lstm_recurrent_step(x_t, m_t, h_tm1, c_tm1, U) ==
    [i \in DOMAIN h_tm1 |->
        LET dim == Len(h_tm1[i])
            projected_gates == VPlus(dot(h_tm1[i], U), x_t[i])
            ig == VSigmoid(_slice(projected_gates, 0, dim))
            o == VSigmoid(_slice(projected_gates, 1, dim))
            f == VSigmoid(_slice(projected_gates, 2, dim))
            c == VTanh(_slice(projected_gates, 3, dim))
            c_ti == VPlus(VTimes(f, c_tm1[i]), VTimes(ig, c))
            c_t == MaskBlend(m_t[i], c_ti, c_tm1[i])
            h_ti == VTimes(o, VTanh(c_t))
        IN  [h |-> MaskBlend(m_t[i], h_ti, h_tm1[i]), c |-> c_t]]

\* An attention weight is the quotient n / d of a masked exponential and the
\* sum of the masked exponentials of its sample; 0 / 0 is NaN.
Quotient(n, d) == [n |-> n, d |-> d]

IsNaNWeight(w) == w.d = 0

\* (conc_hidden * att_w_t[:, :, None]).sum(axis=0), one feature of one
\* sample: NaN as soon as one weight is.
WeightedSum(v, w) ==
    IF \E p \in DOMAIN w : IsNaNWeight(w[p]) THEN NaN
    ELSE SumOver([p \in DOMAIN w |-> v[p] * w[p].n], Len(w)) \div w[1].d

\* conditional_attention_gru_recurrent_layer's step: (h_t, ctx_t, att_w_t)
\* of one sample.
conditional_attention_gru_step(x_t, m_t, att_i_t, h_tm1, proj_hid_att, U, hidden_mask) ==
    [i \in DOMAIN h_tm1 |->
        LET dim == Len(h_tm1[i])
            P == DOMAIN conc_hidden
            att_s == dot(h_tm1[i], Attention.Ws_att)
            att == [p \in P |->
                      VTanh(VPlus(VPlus(proj_hid_att[p][i], att_s),
                                  att_i_t[i]))]
            score == [p \in P |->
                        Plus(dot(att[p], Attention.Wp_att)[1],
                             Attention.bp_att)]
            att_w_t_max ==
                MaxOver([p \in P |-> Times(score[p], hidden_mask[p][i])],
                        Len(conc_hidden))
            unnormalised ==
                [p \in P |->
                    Times(hidden_mask[p][i], exp(score[p] - att_w_t_max))]
            total == SumOver(unnormalised, Len(conc_hidden))
            att_w_t == [p \in P |-> Quotient(unnormalised[p], total)]
            ctx_t == [j \in 1..dim |->
                        WeightedSum([p \in P |-> conc_hidden[p][i][j]],
                                    att_w_t)]
            projected_state == VPlus(dot(h_tm1[i], Params(3).Urz),
                                     dot(ctx_t, Attention.W_cth))
            r == VSigmoid(VPlus(_slice(x_t[i], 0, dim),
                                _slice(projected_state, 0, dim)))
            z == VSigmoid(VPlus(_slice(x_t[i], 1, dim),
                                _slice(projected_state, 1, dim)))
            candidate_h_t ==
                VTanh(VPlus(VPlus(_slice(x_t[i], 2, dim),
                                  VTimes(r, dot(h_tm1[i], U))),
                            dot(ctx_t, Attention.W_ctc)))
            h_ti == VPlus(VTimes(z, h_tm1[i]),
                          VTimes(VOneMinus(z), candidate_h_t))
        IN  [h |-> MaskBlend(m_t[i], h_ti, h_tm1[i]), ctx |-> ctx_t,
             att |-> att_w_t]]

\* ---------------------------------------------------------------- actions

\* No scan is running: no cell, no data, no outputs.
NoScan ==
    [cell |-> "none", X |-> 0, hidden_mask |-> <<>>, mask |-> <<>>,
     x |-> <<>>, h |-> <<>>, c |-> <<>>, ctx |-> <<>>, att |-> <<>>]

\* An empty data directory, and no check_fetch_* call made.
NoFiles == <<>>

NoFetch ==
    [n |-> 0, op |-> "none", found |-> FALSE, downloads |-> 0,
     err |-> "none", out |-> <<>>, path |-> <<>>, pre |-> NoFiles]

\* No dataset was loaded yet and no line of text was read.
NoDataset ==
    [op |-> "none", args |-> <<>>, lines |-> <<>>, out |-> [err |-> "none"]]

\* No second run is compared.
NoTwin == [graph |-> <<>>, random_state |-> [pos |-> 0], err |-> "none",
           out |-> NoTensor, seeds |-> <<>>]

BaseNames == {"n", "m"}

NoSeeds(r) == r @@ [seeds |-> <<>>]

\* One builder call: the graph and the random source move to what the call
\* left, and the call is remembered with the state it started from.
\* The base name each entry of the graph g was registered under: the
\* entries the call added, after the ones that were there ("" for the
\* datasets the script registered).
Owners(name, g) ==
    last.owners \o [i \in 1..(Len(g) - Len(graph)) |-> name]

Record(op, args, r) ==
    /\ graph' = r.g
    /\ random_state' = r.rs
    /\ last' = [op |-> op, args |-> args, err |-> r.err, out |-> r.out,
                seeds |-> r.seeds, pre |-> graph, rs_pre |-> random_state,
                owners |-> Owners(args.name, r.g)]
    /\ ncalls' = ncalls + 1
    /\ UNCHANGED <<scan, twin, files, fetch, dataset>>

\* projection_layer called directly, with the caller's init_func.
ProjectionProfiles ==
    { [inputs |-> <<Tensor("X3"), Tensor("X5")>>, proj_dim |-> Some(4),
       init_func |-> "np_tanh_fan"],
      [inputs |-> <<Tensor("X3")>>, proj_dim |-> Some(2),
       init_func |-> "np_rand"],
      [inputs |-> <<Tensor("X3"), Tensor("X5")>>, proj_dim |-> None,
       init_func |-> "np_tanh_fan"] }

CallProjection ==
    /\ ncalls < MaxCalls
    /\ \E p \in ProjectionProfiles, name \in BaseNames,
          have_rs \in BOOLEAN, strict \in BOOLEAN :
          Record("projection_layer",
                 [inputs |-> p.inputs, name |-> name, proj_dim |-> p.proj_dim,
                  have_rs |-> have_rs, strict |-> strict,
                  init_func |-> p.init_func],
                 NoSeeds(projection_layer(p.inputs, graph, name, p.proj_dim,
                                          random_state, have_rs, strict,
                                          p.init_func, "linear")))

\* Base names that end in another builder's suffix: the weight of
\* projection_layer "n_embedding" has the name of the table of
\* embedding_layer "n", and the parameters of projection_layer
\* "n_gru_rec_step" have the names of two of the four of
\* gru_recurrent_layer "n".
SuffixNames == {"n_embedding", "n_gru_rec_step"}

CallProjectionNamed ==
    /\ ncalls < MaxCalls
    /\ \E p \in ProjectionProfiles, name \in SuffixNames,
          have_rs \in BOOLEAN, strict \in BOOLEAN :
          Record("projection_layer",
                 [inputs |-> p.inputs, name |-> name,
                  proj_dim |-> p.proj_dim, have_rs |-> have_rs,
                  strict |-> strict, init_func |-> p.init_func],
                 NoSeeds(projection_layer(p.inputs, graph, name,
                                          p.proj_dim, random_state, have_rs,
                                          strict, p.init_func, "linear")))

\* linear_layer, sigmoid_layer, tanh_layer, softplus_layer, exp_layer,
\* relu_layer, softmax_layer.
CallSpecialized ==
    /\ ncalls < MaxCalls
    /\ \E layer \in Specializations, name \in BaseNames, strict \in BOOLEAN :
          LET inputs == <<Tensor("X3"), Tensor("X5")>>
          IN  Record(layer,
                     [inputs |-> inputs, name |-> name, proj_dim |-> Some(4),
                      have_rs |-> TRUE, strict |-> strict],
                     NoSeeds(Specialized(layer, inputs, graph, name, Some(4),
                                         random_state, TRUE, strict)))

CallFixedProjection ==
    /\ ncalls < MaxCalls
    /\ \E name \in BaseNames, strict \in BOOLEAN,
          pre \in {None, Some(Array(<<3>>, "mean0", 0))} :
          LET inputs == <<Tensor("X3")>>
              transform == Array(<<3, 2>>, "pca_matrix", 0)
          IN  Record("fixed_projection_layer",
                     [inputs |-> inputs, name |-> name, strict |-> strict,
                      pre |-> pre],
                     NoSeeds(WithRs(fixed_projection_layer(
                                        inputs, transform, graph, name, pre,
                                        None, strict),
                                    random_state)))

CallEmbedding ==
    /\ ncalls < MaxCalls
    /\ \E inputs \in {<<Tensor("I1")>>, <<Tensor("I1"), Tensor("I1")>>,
                      <<Tensor("F1")>>, <<Tensor("X3")>>},
          name \in BaseNames, have_rs \in BOOLEAN, strict \in BOOLEAN :
          Record("embedding_layer",
                 [inputs |-> inputs, name |-> name, max_index |-> 5,
                  proj_dim |-> Some(2), have_rs |-> have_rs,
                  strict |-> strict],
                 NoSeeds(embedding_layer(inputs, 5, 2, graph, name,
                                         random_state, have_rs, strict,
                                         "np_rand")))

CallDropout ==
    /\ ncalls < MaxCalls
    /\ \E inputs \in {<<Tensor("X3")>>, <<Tensor("X3"), Tensor("X5")>>,
                      <<Tensor("S3")>>, <<Tensor("Q4")>>},
          on_off_switch \in {0, 1}, p \in {0, 50}, have_rs \in BOOLEAN,
          d \in SeedDraws, e \in SeedDraws :
          Record("dropout_layer",
                 [inputs |-> inputs, name |-> "n", switch |-> on_off_switch,
                  p |-> p, have_rs |-> have_rs],
                 dropout_layer(inputs, graph, "n", on_off_switch, p,
                               random_state, have_rs, d \o e))

CallSoftmaxSample ==
    /\ ncalls < MaxCalls
    /\ \E name \in BaseNames, have_rs \in BOOLEAN,
          d \in SeedDraws :
          LET inputs == <<Tensor("X3")>>
          IN  Record("softmax_sample_layer",
                     [inputs |-> inputs, name |-> name, have_rs |-> have_rs],
                     softmax_sample_layer(inputs, graph, name, random_state,
                                          have_rs, d))

CallGaussianSample ==
    /\ ncalls < MaxCalls
    /\ \E name \in BaseNames, have_rs \in BOOLEAN,
          d \in SeedDraws :
          LET mu == <<Tensor("X3")>>
              sigma == <<Tensor("X3")>>
          IN  Record("gaussian_sample_layer",
                     [inputs |-> mu, name |-> name, have_rs |-> have_rs],
                     gaussian_sample_layer(mu, sigma, graph, name,
                                           random_state, have_rs, d))

CallGaussianLogSample ==
    /\ ncalls < MaxCalls
    /\ \E name \in BaseNames, have_rs \in BOOLEAN,
          d \in SeedDraws :
          LET mu == <<Tensor("X3")>>
              log_sigma == <<Tensor("X3")>>
          IN  Record("gaussian_log_sample_layer",
                     [inputs |-> mu, name |-> name, have_rs |-> have_rs],
                     gaussian_log_sample_layer(mu, log_sigma, graph, name,
                                               random_state, have_rs,
                                               d))

\* Input lists of the recurrent builders: a rank-3 sequence, and the
\* rank-2 and rank-4 tensors the rank check is there for.
SequenceInputs == {<<Tensor("S3")>>, <<Tensor("X3")>>, <<Tensor("Q4")>>}

RecArgs(inputs, name, hidden_dim, have_rs, strict) ==
    [inputs |-> inputs, name |-> name, hidden_dim |-> hidden_dim,
     have_rs |-> have_rs, strict |-> strict]

CallTanhRecurrent ==
    /\ ncalls < MaxCalls
    /\ \E inputs \in SequenceInputs, name \in BaseNames,
          have_rs \in BOOLEAN, strict \in BOOLEAN :
          Record("tanh_recurrent_layer",
                 RecArgs(inputs, name, 2, have_rs, strict),
                 NoSeeds(tanh_recurrent_layer(inputs, "mask", 2, graph, name,
                                              random_state, have_rs, strict)))

CallGruRecurrent ==
    /\ ncalls < MaxCalls
    /\ \E inputs \in SequenceInputs, name \in BaseNames \cup {"n_r"},
          have_rs \in BOOLEAN, strict \in BOOLEAN :
          Record("gru_recurrent_layer",
                 RecArgs(inputs, name, 2, have_rs, strict),
                 NoSeeds(gru_recurrent_layer(inputs, "mask", 2, graph, name,
                                             random_state, have_rs, strict)))

CallBidirectionalGru ==
    /\ ncalls < MaxCalls
    /\ \E inputs \in SequenceInputs, name \in BaseNames,
          have_rs \in BOOLEAN, strict \in BOOLEAN :
          Record("bidirectional_gru_recurrent_layer",
                 RecArgs(inputs, name, 2, have_rs, strict),
                 NoSeeds(bidirectional_gru_recurrent_layer(
                             inputs, "mask", 2, graph, name, random_state,
                             have_rs, strict)))

CallLstmRecurrent ==
    /\ ncalls < MaxCalls
    /\ \E inputs \in SequenceInputs, name \in BaseNames,
          have_rs \in BOOLEAN, strict \in BOOLEAN :
          Record("lstm_recurrent_layer",
                 RecArgs(inputs, name, 2, have_rs, strict),
                 NoSeeds(lstm_recurrent_layer(inputs, "mask", 2, graph, name,
                                              random_state, have_rs, strict)))

CallConditionalGru ==
    /\ ncalls < MaxCalls
    /\ \E outputs \in SequenceInputs, name \in BaseNames,
          have_rs \in BOOLEAN, strict \in BOOLEAN :
          Record("conditional_gru_recurrent_layer",
                 RecArgs(outputs, name, 2, have_rs, strict),
                 NoSeeds(conditional_gru_recurrent_layer(
                             outputs, <<Tensor("S3")>>, "mask", 2, graph,
                             name, random_state, have_rs, strict)))

CallConditionalAttentionGru ==
    /\ ncalls < MaxCalls
    /\ \E outputs \in SequenceInputs, name \in BaseNames,
          have_rs \in BOOLEAN, strict \in BOOLEAN :
          Record("conditional_attention_gru_recurrent_layer",
                 RecArgs(outputs, name, 2, have_rs, strict),
                 NoSeeds(conditional_attention_gru_recurrent_layer(
                             outputs, <<Tensor("S3")>>, "mask", "hidden_mask",
                             2, graph, name, random_state, have_rs, strict)))

\* The script's start: the datasets are registered, nothing is drawn.
InitBuilders ==
    /\ graph = add_datasets_to_graph(Datasets)
    /\ random_state = [pos |-> 0]
    /\ last = [op |-> "none", args |-> <<>>, err |-> "none", out |-> NoTensor,
               seeds |-> <<>>, pre |-> add_datasets_to_graph(Datasets),
               rs_pre |-> [pos |-> 0],
               owners |-> [i \in DOMAIN Datasets |-> ""]]
    /\ ncalls = 0

\* While the script builds its layers no scan runs.
Init ==
    /\ InitBuilders
    /\ scan = NoScan
    /\ twin = NoTwin
    /\ files = NoFiles
    /\ fetch = NoFetch
    /\ dataset = NoDataset

\* The stochastic builders, which draw seeds from the random source.
NextStochastic ==
    \/ CallDropout
    \/ CallSoftmaxSample
    \/ CallGaussianSample
    \/ CallGaussianLogSample

SpecStochastic == Init /\ [][NextStochastic]_vars

\* The feed-forward and recurrent builders.
Next ==
    \/ CallProjection
    \/ CallSpecialized
    \/ CallFixedProjection
    \/ CallEmbedding
    \/ CallTanhRecurrent
    \/ CallGruRecurrent
    \/ CallBidirectionalGru
    \/ CallLstmRecurrent
    \/ CallConditionalGru
    \/ CallConditionalAttentionGru

Spec == Init /\ [][Next]_vars

\* Scripts whose layers' base names extend one another.
NextSharing ==
    \/ CallProjectionNamed
    \/ CallProjection
    \/ CallFixedProjection
    \/ CallEmbedding
    \/ CallGruRecurrent

SpecSharing == Init /\ [][NextSharing]_vars

\* ---------------------------------------------------------------- two runs

\* The same script run twice: both runs make every call with the same
\* arguments, each on its own graph and its own random source.  The first
\* run is in graph, random_state and last, the second in twin.

\* A faulty source whose draws do not depend on its state, as one seeded
\* from the clock would be.
AnySourceDraws(rs, rs2, draws, all) == all

\* np.random.RandomState is a deterministic generator: a source in the state
\* rs2 returns what the first run's source returned in the state rs when
\* rs2 = rs, and any of the values all otherwise.
SameSourceDraws(rs, rs2, draws, all) == IF rs2 = rs THEN {draws} ELSE all

\* One call of both runs: r is what it left in the first, r2 in the second.
RecordBoth(op, args, r, r2) ==
    /\ graph' = r.g
    /\ random_state' = r.rs
    /\ last' = [op |-> op, args |-> args, err |-> r.err, out |-> r.out,
                seeds |-> r.seeds, pre |-> graph, rs_pre |-> random_state,
                owners |-> Owners(args.name, r.g)]
    /\ ncalls' = ncalls + 1
    /\ twin' = [graph |-> r2.g, random_state |-> r2.rs, err |-> r2.err,
                out |-> r2.out, seeds |-> r2.seeds]
    /\ UNCHANGED <<scan, files, fetch, dataset>>

\* The projection builders the conditional VAE script calls.
ScriptLayers ==
    {"softplus_layer", "softmax_layer", "linear_layer", "sigmoid_layer"}

TwoRunsSpecialized ==
    /\ ncalls < MaxCalls
    /\ \E layer \in ScriptLayers, name \in BaseNames, have_rs \in BOOLEAN,
          inputs \in {<<Tensor("X3")>>, <<Tensor("X3"), Tensor("X5")>>} :
          LET call(g, rs) ==
                  NoSeeds(Specialized(layer, inputs, g, name, Some(4), rs,
                                      have_rs, TRUE))
          IN  RecordBoth(layer,
                         [inputs |-> inputs, name |-> name,
                          proj_dim |-> Some(4), have_rs |-> have_rs,
                          strict |-> TRUE],
                         call(graph, random_state),
                         call(twin.graph, twin.random_state))

TwoRunsGaussianLogSample ==
    /\ ncalls < MaxCalls
    /\ \E name \in BaseNames, d \in SeedDraws :
       \E d2 \in SameSourceDraws(random_state, twin.random_state, d, SeedDraws) :
          LET mu == <<Tensor("X3")>>
              log_sigma == <<Tensor("X3")>>
          IN  RecordBoth("gaussian_log_sample_layer",
                         [inputs |-> mu, name |-> name, have_rs |-> TRUE],
                         gaussian_log_sample_layer(
                             mu, log_sigma, graph, name, random_state, TRUE,
                             d),
                         gaussian_log_sample_layer(
                             mu, log_sigma, twin.graph, name,
                             twin.random_state, TRUE, d2))

TwoRunsDropout ==
    /\ ncalls < MaxCalls
    /\ \E on_off_switch \in {0, 1}, p \in {0, 50},
          d \in {x \o y : x \in SeedDraws, y \in SeedDraws} :
       \E d2 \in SameSourceDraws(random_state, twin.random_state, d,
                                 {x \o y : x \in SeedDraws, y \in SeedDraws}) :
          LET inputs == <<Tensor("X3")>>
          IN  RecordBoth("dropout_layer",
                         [inputs |-> inputs, name |-> "n",
                          switch |-> on_off_switch, p |-> p,
                          have_rs |-> TRUE],
                         dropout_layer(inputs, graph, "n", on_off_switch, p,
                                       random_state, TRUE, d),
                         dropout_layer(inputs, twin.graph, "n", on_off_switch,
                                       p, twin.random_state, TRUE, d2))

\* Both runs start with the datasets registered and a source seeded alike.
InitTwoRuns ==
    /\ InitBuilders
    /\ scan = NoScan
    /\ twin = [graph |-> add_datasets_to_graph(Datasets),
               random_state |-> [pos |-> 0], err |-> "none",
               out |-> NoTensor, seeds |-> <<>>]
    /\ files = NoFiles
    /\ fetch = NoFetch
    /\ dataset = NoDataset

NextTwoRuns ==
    \/ TwoRunsSpecialized
    \/ TwoRunsGaussianLogSample
    \/ TwoRunsDropout

SpecTwoRuns == InitTwoRuns /\ [][NextTwoRuns]_vars

\* ------------------------------------------------------------ scan actions

Cells == {"tanh", "gru", "lstm", "cond_gru", "att_gru"}

InputIds == {1, 2}

\* One row of a mask, a float 0 or 1 per sample: both samples valid, or
\* one of them padded.
MaskRows == { <<One, One>>, <<One, 0>>, <<0, One>> }

\* hidden_mask[p][i], the encoder mask of sample i at position p: every
\* position valid; the second sample's last position padded; the second
\* sample empty.  The other cells take no encoder mask.
HiddenMasks(cell) ==
    IF cell = "att_gru"
    THEN { << <<One, One>>, <<One, One>> >>,
           << <<One, One>>, <<One, 0>> >>,
           << <<One, 0>>, <<One, 0>> >> }
    ELSE { <<>> }

\* The state a scan starts from: no timestep consumed, no output yet.
ScanStarts ==
    UNION { { [NoScan EXCEPT !.cell = cell, !.X = X, !.hidden_mask = hm] :
                X \in InputIds, hm \in HiddenMasks(cell) } : cell \in Cells }

\* The previous value of a scan output: outputs_info before the first step.
Prev(outs, initial) == IF outs = <<>> THEN initial ELSE outs[Len(outs)]

\* The timestep a scan is about to compute (1 is the first).
Now == Len(scan.h) + 1

Builders ==
    <<graph, random_state, last, ncalls, twin, files, fetch, dataset>>

TanhRecurrentScan ==
    /\ scan.cell = "tanh"
    /\ Now <= MaxT
    /\ \E m_t \in MaskRows :
        LET x_t == projected_input(conc_input(scan.X, Now), Params(1))
            h_t == tanh_recurrent_step(x_t, m_t, Prev(scan.h, h0_sym("tanh")),
                                       Params(1).U)
        IN  scan' = [scan EXCEPT !.mask = Append(@, m_t),
                                 !.x = Append(@, conc_input(scan.X, Now)),
                                 !.h = Append(@, h_t)]
    /\ UNCHANGED Builders

GruRecurrentScan ==
    /\ scan.cell = "gru"
    /\ Now <= MaxT
    /\ \E m_t \in MaskRows :
        LET x_t == projected_input(conc_input(scan.X, Now), Params(3))
            h_t == gru_recurrent_step(x_t, m_t, Prev(scan.h, h0_sym("gru")),
                                      CandidateU, Params(3).Urz)
        IN  scan' = [scan EXCEPT !.mask = Append(@, m_t),
                                 !.x = Append(@, conc_input(scan.X, Now)),
                                 !.h = Append(@, h_t)]
    /\ UNCHANGED Builders

LstmRecurrentScan ==
    /\ scan.cell = "lstm"
    /\ Now <= MaxT
    /\ \E m_t \in MaskRows :
        LET x_t == projected_input(conc_input(scan.X, Now), Params(4))
            hc == lstm_recurrent_step(x_t, m_t, Prev(scan.h, h0_sym("lstm")),
                                      Prev(scan.c, Zeros(2, 2)), Params(4).U)
        IN  scan' = [scan EXCEPT !.mask = Append(@, m_t),
                                 !.x = Append(@, conc_input(scan.X, Now)),
                                 !.h = Append(@, [i \in DOMAIN hc |-> hc[i].h]),
                                 !.c = Append(@, [i \in DOMAIN hc |-> hc[i].c])]
    /\ UNCHANGED Builders

ConditionalGruScan ==
    /\ scan.cell = "cond_gru"
    /\ Now <= MaxT
    /\ \E m_t \in MaskRows :
        LET x == input_shifted(scan.X, Now)
            x_t == projected_input(x, Params(3))
            h_t == conditional_gru_step(
                       x_t, m_t, Prev(scan.h, h0_sym("cond_gru")), CandidateU,
                       Params(3).Urz, projected_context_to_gates,
                       projected_context_to_hidden)
        IN  scan' = [scan EXCEPT !.mask = Append(@, m_t),
                                 !.x = Append(@, x),
                                 !.h = Append(@, h_t)]
    /\ UNCHANGED Builders

ConditionalAttentionGruScan ==
    /\ scan.cell = "att_gru"
    /\ Now <= MaxT
    /\ \E m_t \in MaskRows :
        LET x == input_shifted(scan.X, Now)
            outs == conditional_attention_gru_step(
                        projected_input(x, Params(3)), m_t,
                        projected_input_attention(x),
                        Prev(scan.h, h0_sym("att_gru")),
                        projected_hidden_attention, CandidateU,
                        scan.hidden_mask)
        IN  scan' = [scan EXCEPT
                        !.mask = Append(@, m_t),
                        !.x = Append(@, x),
                        !.h = Append(@, [i \in DOMAIN outs |-> outs[i].h]),
                        !.ctx = Append(@, [i \in DOMAIN outs |-> outs[i].ctx]),
                        !.att = Append(@, [i \in DOMAIN outs |-> outs[i].att])]
    /\ UNCHANGED Builders

\* A scan over a minibatch: the compiled function is handed its data and
\* runs from the first timestep.
InitScan ==
    /\ InitBuilders
    /\ scan \in ScanStarts
    /\ twin = NoTwin
    /\ files = NoFiles
    /\ fetch = NoFetch
    /\ dataset = NoDataset

NextScan ==
    \/ TanhRecurrentScan
    \/ GruRecurrentScan
    \/ LstmRecurrentScan
    \/ ConditionalGruScan
    \/ ConditionalAttentionGruScan

SpecScan == InitScan /\ [][NextScan]_vars

\* ------------------------------------------------------- dataset cache

\* A path is the sequence of its components; files maps every existing path
\* to a directory, to a downloaded file ("complete", or "partial" when the
\* transfer broke off), or to a zip archive with its members.
Dir == [kind |-> "dir", members |-> {}]

File(state) == [kind |-> state, members |-> {}]

Zip(members) == [kind |-> "zip", members |-> members]

Exists(fs, path) == path \in DOMAIN fs

Put(fs, path, content) ==
    [q \in DOMAIN fs \cup {path} |-> IF q = path THEN content ELSE fs[q]]

\* os.getenv("DAGBLDR_DATA", ~/dagbldr_data): environ is None or the
\* variable's value.
Environs == {None, Some("/data")}

getenv(environ, default) == IF environ = None THEN default ELSE environ[1]

\* get_dataset_dir(dataset_name): the directory, created when missing.
get_dataset_dir(fs, environ, dataset_name) ==
    LET data_dir == <<getenv(environ, "~/dagbldr_data"), dataset_name>>
    IN  [fs |-> IF ~Exists(fs, data_dir) THEN Put(fs, data_dir, Dir)
                ELSE fs,
         path |-> data_dir]

\* What can happen to one download: it completes; urlopen fails before the
\* local file is opened; or the transfer breaks off after the local file
\* was opened for writing, which leaves the part written so far.
Outcomes == {"ok", "refused", "cut"}

download(fs, local_fname, outcome) ==
    CASE outcome = "ok" ->
           [fs |-> Put(fs, local_fname, File("complete")), err |-> "none"]
      [] outcome = "refused" ->
           [fs |-> fs, err |-> "IOError"]
      [] outcome = "cut" ->
           [fs |-> Put(fs, local_fname, File("partial")), err |-> "IOError"]

\* What a check_fetch_* call leaves: the files, the error it raised if any,
\* the path it returned, whether it found the cache file, and the number of
\* download calls it made.
Fetched(fs, err, full_path, found, downloads) ==
    [fs |-> fs, err |-> err, out |-> IF err = "none" THEN full_path ELSE <<>>,
     path |-> full_path, found |-> found, downloads |-> downloads]

\* The body check_fetch_babi, check_fetch_lovecraft, check_fetch_fer,
\* check_fetch_frey and check_fetch_mnist share: one file, downloaded to its
\* cache path when no file exists there.
check_fetch(fs, environ, dataset_name, fname, outcome) ==
    LET d == get_dataset_dir(fs, environ, dataset_name)
        partial_path == d.path
        full_path == Append(partial_path, fname)
    IN  IF ~Exists(d.fs, full_path)
        THEN LET r == download(d.fs, full_path, outcome)
             IN  Fetched(r.fs, r.err, full_path, FALSE, 1)
        ELSE Fetched(d.fs, "none", full_path, TRUE, 0)

check_fetch_babi(fs, environ, outcome) ==
    check_fetch(fs, environ, "babi", "tasks_1-20_v1-2.tar.gz", outcome)

check_fetch_lovecraft(fs, environ, outcome) ==
    check_fetch(fs, environ, "lovecraft", "lovecraft_fiction.zip", outcome)

check_fetch_fer(fs, environ, outcome) ==
    check_fetch(fs, environ, "fer", "fer2013.tar.gz", outcome)

check_fetch_frey(fs, environ, outcome) ==
    check_fetch(fs, environ, "frey", "frey_rawface.mat", outcome)

check_fetch_mnist(fs, environ, outcome) ==
    check_fetch(fs, environ, "mnist", "mnist.pkl.gz", outcome)

all_vocabs ==
    <<"vocab.enron.txt", "vocab.kos.txt", "vocab.nips.txt",
      "vocab.nytimes.txt", "vocab.pubmed.txt">>

\* zipdir: the archive of every file under path whose name contains "vocab",
\* each as it is on disk.
zipdir(fs, path) ==
    Zip({<<all_vocabs[i], fs[Append(path, all_vocabs[i])].kind>> :
            i \in {j \in DOMAIN all_vocabs :
                      Exists(fs, Append(path, all_vocabs[j]))}})

\* The loop of check_fetch_uci_words from its i-th vocabulary on: download
\* it, then write the archive anew; a failed download ends the call.
RECURSIVE uci_words_loop(_, _, _, _, _)
uci_words_loop(fs, partial_path, full_path, outcomes, i) ==
    IF i > Len(all_vocabs)
    THEN Fetched(fs, "none", full_path, FALSE, Len(all_vocabs))
    ELSE LET r == download(fs, Append(partial_path, all_vocabs[i]),
                           outcomes[i])
         IN  IF r.err # "none"
             THEN Fetched(r.fs, r.err, full_path, FALSE, i)
             ELSE uci_words_loop(
                      Put(r.fs, full_path, zipdir(r.fs, partial_path)),
                      partial_path, full_path, outcomes, i + 1)

check_fetch_uci_words(fs, environ, outcomes) ==
    LET d == get_dataset_dir(fs, environ, "uci_words")
        partial_path == d.path
        full_path == Append(partial_path, "uci_words.zip")
    IN  IF ~Exists(d.fs, full_path)
        THEN uci_words_loop(d.fs, partial_path, full_path, outcomes, 1)
        ELSE Fetched(d.fs, "none", full_path, TRUE, 0)

\* One check_fetch_* call.
RecordFetch(op, r) ==
    /\ fetch.n < MaxFetches
    /\ files' = r.fs
    /\ fetch' = [n |-> fetch.n + 1, op |-> op, found |-> r.found,
                 downloads |-> r.downloads, err |-> r.err, out |-> r.out,
                 path |-> r.path, pre |-> files]
    /\ UNCHANGED <<graph, random_state, last, ncalls, scan, twin, dataset>>

CheckFetchBabi ==
    \E environ \in Environs, outcome \in Outcomes :
        RecordFetch("check_fetch_babi",
                    check_fetch_babi(files, environ, outcome))

CheckFetchLovecraft ==
    \E environ \in Environs, outcome \in Outcomes :
        RecordFetch("check_fetch_lovecraft",
                    check_fetch_lovecraft(files, environ, outcome))

CheckFetchFer ==
    \E environ \in Environs, outcome \in Outcomes :
        RecordFetch("check_fetch_fer",
                    check_fetch_fer(files, environ, outcome))

CheckFetchFrey ==
    \E environ \in Environs, outcome \in Outcomes :
        RecordFetch("check_fetch_frey",
                    check_fetch_frey(files, environ, outcome))

CheckFetchMnist ==
    \E environ \in Environs, outcome \in Outcomes :
        RecordFetch("check_fetch_mnist",
                    check_fetch_mnist(files, environ, outcome))

\* The downloads of the vocabularies succeed up to the k-th; the next one,
\* if there is one, fails.
CheckFetchUciWords ==
    \E environ \in Environs, k \in 0..Len(all_vocabs),
       failure \in Outcomes \ {"ok"} :
        RecordFetch("check_fetch_uci_words",
                    check_fetch_uci_words(
                        files, environ,
                        [i \in DOMAIN all_vocabs |->
                            IF i <= k THEN "ok" ELSE failure]))

NextFetch ==
    \/ CheckFetchUciWords
    \/ CheckFetchBabi
    \/ CheckFetchLovecraft
    \/ CheckFetchFer
    \/ CheckFetchFrey
    \/ CheckFetchMnist

SpecFetch == Init /\ [][NextFetch]_vars

\* ------------------------------------------------------- dataset loading

\* The sentences of a task file after whitespace_tokenizer, the tokens of a
\* question and the answers.
Sentences == {<<"a">>, <<"b", "c">>}

Question == <<"where">>

Answers == {"x"}

\* A line of a task file after strip, split(' ', 1), int(nid) and the test
\* for a tab: a statement carries its tokens, a question its tokens, its
\* answer and the line ids of its supporting statements.
Statement(nid, sent) ==
    [nid |-> nid, tab |-> FALSE, text |-> sent, a |-> "", supporting |-> <<>>]

QuestionLine(nid, a, supporting) ==
    [nid |-> nid, tab |-> TRUE, text |-> Question, a |-> a,
     supporting |-> supporting]

\* The position in `lines` of the line that opened the story the k-th line
\* belongs to (0 if no line numbered 1 came before it).
StoryStart(lines, k) ==
    LET starts == {j \in 1..k : lines[j].nid = 1}
    IN  IF starts = {} THEN 0
        ELSE CHOOSE j \in starts : \A i \in starts : i <= j

\* The line ids of the statements of the story the file currently ends in.
OpenStatements(lines) ==
    {lines[j].nid : j \in {i \in 1..Len(lines) :
                              /\ i >= StoryStart(lines, Len(lines))
                              /\ i >= 1
                              /\ ~lines[i].tab}}

\* One or two distinct line ids, in any order.
SupportingLists(ids) ==
    {<<i>> : i \in ids} \cup
    {<<p[1], p[2]>> : p \in {q \in ids \X ids : q[1] # q[2]}}

\* The lines a task file can continue with: the file opens with line 1, a
\* line is numbered 1 or one more than the line before it, and a question
\* follows at least one statement of its story and names statements of it.
NextLines(lines) ==
    LET n == IF lines = <<>> THEN 0 ELSE lines[Len(lines)].nid
    IN  {Statement(nid, sent) :
            nid \in (IF n = 0 THEN {1} ELSE {1, n + 1}), sent \in Sentences}
        \cup
        (IF n = 0 THEN {}
         ELSE {QuestionLine(n + 1, a, sup) :
                  a \in Answers,
                  sup \in SupportingLists(OpenStatements(lines))})

\* story[j] with Python's indexing: j counts from 0, a negative j from the
\* end; out of range is an IndexError (the empty sequence here).
PyIndex(story, j) ==
    IF j >= 0 /\ j < Len(story) THEN <<story[j + 1]>>
    ELSE IF j < 0 /\ 0 - j <= Len(story) THEN <<story[Len(story) + j + 1]>>
    ELSE <<>>

\* A faulty loop body that keeps the story when a line is numbered 1.
parse_line_no_reset(st, line, only_supporting) ==
    LET story == st.story
        found == [k \in DOMAIN line.supporting |->
                     PyIndex(story, line.supporting[k] - 1)]
        substory == IF only_supporting
                    THEN [k \in DOMAIN found |-> found[k][1]]
                    ELSE SelectSeq(story, LAMBDA x : x # <<>>)
    IN  IF st.err # "none" THEN st
        ELSE IF ~line.tab
        THEN [st EXCEPT !.story = Append(story, line.text)]
        ELSE IF only_supporting /\ \E k \in DOMAIN found : found[k] = <<>>
        THEN [st EXCEPT !.err = "IndexError"]
        ELSE [st EXCEPT !.story = Append(story, <<>>),
                        !.data = Append(@, [story |-> substory,
                                            q |-> line.text, a |-> line.a])]

\* The body of _parse_stories' loop: line 1 empties the story; a question
\* emits (substory, q, a) and appends the placeholder '' (the empty
\* sequence here: no sentence is empty); a statement is appended.
parse_line(st, line, only_supporting) ==
    LET story == IF line.nid = 1 THEN <<>> ELSE st.story
        found == [k \in DOMAIN line.supporting |->
                     PyIndex(story, line.supporting[k] - 1)]
        substory == IF only_supporting
                    THEN [k \in DOMAIN found |-> found[k][1]]
                    ELSE SelectSeq(story, LAMBDA x : x # <<>>)
    IN  IF st.err # "none" THEN st
        ELSE IF ~line.tab
        THEN [st EXCEPT !.story = Append(story, line.text)]
        ELSE IF only_supporting /\ \E k \in DOMAIN found : found[k] = <<>>
        THEN [st EXCEPT !.err = "IndexError"]
        ELSE [st EXCEPT !.story = Append(story, <<>>),
                        !.data = Append(@, [story |-> substory,
                                            q |-> line.text, a |-> line.a])]

RECURSIVE parse_stories(_, _)

\* _parse_stories: the loop over the lines, from an empty story and no data.
parse_stories(lines, only_supporting) ==
    IF lines = <<>> THEN [err |-> "none", story |-> <<>>, data |-> <<>>]
    ELSE parse_line(parse_stories(SubSeq(lines, 1, Len(lines) - 1),
                                  only_supporting),
                    lines[Len(lines)], only_supporting)

RECURSIVE flatten(_)

\* reduce(lambda x, y: x + y, data): the sentences of a non-empty list
\* joined (of an empty list reduce raises the TypeError of get_stories).
flatten(story) ==
    IF Len(story) <= 1 THEN story[1]
    ELSE flatten(SubSeq(story, 1, Len(story) - 1)) \o story[Len(story)]

\* _get_stories: the parsed records with their substory flattened, kept
\* when max_length is None or 0, or when the story has fewer tokens.
get_stories(lines, only_supporting, max_length) ==
    LET parsed == parse_stories(lines, only_supporting)
        kept(r) == \/ max_length = None
                   \/ max_length[1] = 0
                   \/ Len(flatten(r.story)) < max_length[1]
        kept_data == SelectSeq(parsed.data, kept)
    IN  IF parsed.err # "none" THEN [err |-> parsed.err, data |-> <<>>]
        ELSE IF \E i \in DOMAIN parsed.data : parsed.data[i].story = <<>>
        THEN [err |-> "TypeError", data |-> <<>>]
        ELSE [err |-> "none",
              data |-> [i \in DOMAIN kept_data |->
                           [kept_data[i] EXCEPT !.story = flatten(@)]]]

\* np.arange(start, stop): the integers start, ..., stop - 1 in ascending
\* order, kept as the pair of its ends.
arange(start, stop) ==
    [start |-> start, stop |-> IF stop > start THEN stop ELSE start]

\* An index array plus a number.
Shifted(r, k) == [start |-> r.start + k, stop |-> r.stop + k]

\* len(r), r[-1] (of a non-empty array) and the indices of r.
Size(r) == r.stop - r.start

LastOf(r) == r.stop - 1

Indices(r) == r.start .. (r.stop - 1)

\* fetch_babi's index arrays: the train file's records, then the test
\* file's.
fetch_babi(train_lines, test_lines) ==
    LET train == get_stories(train_lines, FALSE, None)
        test == get_stories(test_lines, FALSE, None)
    IN  IF train.err # "none" THEN [err |-> train.err]
        ELSE IF test.err # "none" THEN [err |-> test.err]
        ELSE [err |-> "none",
              n_samples |-> Len(train.data \o test.data),
              train_indices |-> arange(0, Len(train.data)),
              valid_indices |->
                  Shifted(arange(0, Len(test.data)), Len(train.data))]

\* fetch_tfd's index arrays over the len(all_data) images of the file.
fetch_tfd(n_all_data) ==
    LET train_indices == arange(0, 90000)
        valid_indices == Shifted(arange(0, 10000), Size(train_indices) + 1)
        test_indices == arange(LastOf(valid_indices) + 1, n_all_data)
    IN  [err |-> "none", n_samples |-> n_all_data,
         train_indices |-> train_indices,
         valid_indices |-> valid_indices,
         test_indices |-> test_indices]

\* fetch_mnist's index arrays over the three sets of the pickle.
fetch_mnist(n_train, n_valid, n_test) ==
    LET train_indices == arange(0, n_train)
        valid_indices == Shifted(arange(0, n_valid), LastOf(train_indices) + 1)
        test_indices == Shifted(arange(0, n_test), LastOf(valid_indices) + 1)
    IN  IF n_train = 0 \/ n_valid = 0 THEN [err |-> "IndexError"]
        ELSE [err |-> "none", n_samples |-> n_train + n_valid + n_test,
              train_indices |-> train_indices,
              valid_indices |-> valid_indices,
              test_indices |-> test_indices]

\* The sizes of the three sets in mnist.pkl.gz (50000, 10000, 10000) and of
\* smaller pickles of the same layout; the images in TFD_48x48.mat.
MnistSizes == {<<50000, 10000, 10000>>, <<3, 2, 1>>, <<1, 1, 2>>}

TfdSizes == {102236}

MaxLengths == {None, Some(0), Some(2), Some(3)}

\* One more line of the task file arrives, before any function reads it.
ReadLine ==
    /\ dataset.op = "none"
    /\ Len(dataset.lines) < MaxLines
    /\ \E line \in NextLines(dataset.lines) :
          dataset' = [dataset EXCEPT !.lines = Append(@, line)]
    /\ UNCHANGED <<graph, random_state, last, ncalls, scan, twin, files, fetch>>

\* A load is made once, on the text read so far.
Load(op, args, lines, out) ==
    /\ dataset.op = "none"
    /\ dataset' = [op |-> op, args |-> args, lines |-> lines, out |-> out]
    /\ UNCHANGED <<graph, random_state, last, ncalls, scan, twin, files, fetch>>

CallParseStories ==
    \E only_supporting \in BOOLEAN :
        Load("_parse_stories", [only_supporting |-> only_supporting],
             dataset.lines, parse_stories(dataset.lines, only_supporting))

CallGetStories ==
    \E only_supporting \in BOOLEAN, max_length \in MaxLengths :
        Load("_get_stories",
             [only_supporting |-> only_supporting, max_length |-> max_length],
             dataset.lines,
             get_stories(dataset.lines, only_supporting, max_length))

\* The train file is the text read, the test file its first k lines.
CallFetchBabi ==
    \E k \in 0..Len(dataset.lines) :
        Load("fetch_babi", [test |-> SubSeq(dataset.lines, 1, k)],
             dataset.lines,
             fetch_babi(dataset.lines, SubSeq(dataset.lines, 1, k)))

CallFetchTfd ==
    \E n \in TfdSizes : Load("fetch_tfd", [n |-> n], <<>>, fetch_tfd(n))

CallFetchMnist ==
    \E n \in MnistSizes :
        Load("fetch_mnist", [n |-> n], <<>>, fetch_mnist(n[1], n[2], n[3]))

NextDatasets ==
    \/ ReadLine
    \/ CallParseStories
    \/ CallGetStories
    \/ CallFetchBabi
    \/ CallFetchTfd
    \/ CallFetchMnist

SpecDatasets == Init /\ [][NextDatasets]_vars

\* ------------------------------------------------- what a call was about

ProjectionOps == Specializations \cup {"projection_layer"}

SimpleRecurrentOps ==
    {"tanh_recurrent_layer", "gru_recurrent_layer", "lstm_recurrent_layer"}

ConditionalOps ==
    {"conditional_gru_recurrent_layer",
     "conditional_attention_gru_recurrent_layer"}

RecurrentOps == SimpleRecurrentOps \cup ConditionalOps

\* The parameter names the last call asked names_in_graph about.
ParamSuffixes(op) ==
    CASE op \in ProjectionOps -> <<"_W", "_b">>
      [] op = "embedding_layer" -> <<"_embedding_W">>
      [] op = "fixed_projection_layer" -> <<"_W", "_pre", "_post">>
      [] op = "tanh_recurrent_layer" ->
           <<"_tanh_rec_step_W", "_tanh_rec_step_b", "_tanh_rec_step_U">>
      [] op = "gru_recurrent_layer" ->
           <<"_gru_rec_step_W", "_gru_rec_step_b", "_gru_rec_step_Urz",
             "_gru_rec_step_U">>
      [] op = "lstm_recurrent_layer" ->
           <<"_lstm_rec_step_W", "_lstm_rec_step_b", "_lstm_rec_step_U">>
      [] op = "conditional_gru_recurrent_layer" ->
           <<"_cond_gru_rec_step_W", "_cond_gru_rec_step_b",
             "_cond_gru_rec_step_Urz", "_cond_gru_rec_step_U",
             "_cond_gru_rec_step_Wg", "_cond_gru_rec_step_bg",
             "_cond_gru_rec_step_Wh", "_cond_gru_rec_step_bh">>
      [] op = "conditional_attention_gru_recurrent_layer" ->
           <<"_cond_gru_rec_step_W", "_cond_gru_rec_step_b",
             "_cond_gru_rec_step_Urz", "_cond_gru_rec_step_U",
             "_cond_gru_rec_step_W_cth", "_cond_gru_rec_step_W_ctc",
             "_cond_gru_step_Wi_att", "_cond_gru_step_Wc_att",
             "_cond_gru_step_b_att", "_cond_gru_step_Ws_att",
             "_cond_gru_step_Wp_att", "_cond_gru_step_bp_att">>

LastNames == Suffixed(last.args.name, ParamSuffixes(last.op))

\* Every parameter name of the last call was registered when it started.
LastNamesWereRegistered == names_in_graph(LastNames, last.pre)

\* None of them was.
LastNamesWereAbsent ==
    \A i \in DOMAIN LastNames : LastNames[i] \notin GraphNames(last.pre)

Failed == last.err # "none" /\ last.out = NoTensor

\* embedding_layer was handed an index input that is no int32 vector.
BadIndexInputs ==
    /\ last.op = "embedding_layer"
    /\ \E i \in DOMAIN last.args.inputs :
          \/ last.args.inputs[i].dtype # "int32"
          \/ last.args.inputs[i].ndim # 1

\* ------------------------------------------------------------------ claims

StrictCollision ==
    /\ last.op \in ProjectionOps \cup {"embedding_layer", "fixed_projection_layer"}
    /\ last.args.strict
    /\ LastNamesWereRegistered

\* C1 as stated: a strict call of a projection, embedding or fixed
\* projection builder whose names are all registered fails with the
\* duplicate-name error and leaves the graph as it was.
C1_Original ==
    StrictCollision => last.err = "DuplicateName" /\ graph = last.pre

\* C1: such a call fails and leaves the graph as it was; the error is the
\* duplicate-name error, except that embedding_layer checks its index inputs
\* first and fails with the index-type error when one is no int32 vector.
C1_StrictCollisionFails ==
    StrictCollision =>
        /\ Failed
        /\ graph = last.pre
        /\ last.err = IF BadIndexInputs THEN "IndexType" ELSE "DuplicateName"

C1_Witness ==
    /\ StrictCollision
    /\ last.op \in {"tanh_layer", "embedding_layer", "fixed_projection_layer"}
    /\ last.err = "DuplicateName"
    /\ Len(graph) > Len(Datasets)

NonStrictCollision ==
    /\ last.op \in ProjectionOps \cup RecurrentOps
                   \cup {"embedding_layer", "fixed_projection_layer"}
    /\ ~last.args.strict
    /\ LastNamesWereRegistered

\* C2 as stated: a non-strict call of any builder whose names are all
\* registered raises and returns no tensor.
C2_Original == NonStrictCollision => Failed

\* C2: such a call raises and returns no tensor when the builder is
\* fixed_projection_layer or a recurrent builder; projection_layer (and its
\* specializations) and embedding_layer with int32 index vectors instead
\* return a tensor built on the registered parameters.
C2_NonStrictCollision ==
    NonStrictCollision =>
        IF last.op \in RecurrentOps \cup {"fixed_projection_layer"} \/ BadIndexInputs
        THEN Failed
        ELSE /\ last.err = "none"
             /\ last.out.W = EntryOf(last.pre, LastNames[1])

C2_Witness ==
    /\ NonStrictCollision
    /\ last.op \in {"fixed_projection_layer", "gru_recurrent_layer"}
    /\ Failed

ProjectionReuse ==
    /\ last.op = "projection_layer"
    /\ LastNamesWereRegistered

\* What C3 says of a projection_layer call that finds both names
\* registered: the output is computed from the registered weight and bias,
\* its width is the registered weight's and not the new proj_dim, and
\* neither the graph nor the random source moves.
ReusedRegistered ==
    /\ last.err = "none"
    /\ last.out.W = EntryOf(last.pre, LastNames[1])
    /\ last.out.b = EntryOf(last.pre, LastNames[2])
    /\ LastDim(last.out.shape) = LastDim(EntryOf(last.pre, LastNames[1]).shape)
    /\ graph = last.pre
    /\ random_state = last.rs_pre

\* C3 as stated: for every such call.
C3_Original == ProjectionReuse => ReusedRegistered

\* C3: for every such call with strict=False (with strict=True the call
\* raises the duplicate-name error, C1).
C3_ReuseWhenNotStrict ==
    ProjectionReuse /\ ~last.args.strict => ReusedRegistered

\* The reuse ignores a proj_dim and init_func that differ from the
\* registered parameters'.
C3_Witness ==
    /\ ProjectionReuse
    /\ ~last.args.strict
    /\ last.args.proj_dim # None
    /\ last.args.proj_dim[1] # LastDim(last.out.shape)
    /\ last.args.init_func = "np_rand"
    /\ last.out.W.val.init = "tanh_fan"

\* C4: projection_layer called without proj_dim or without a random source
\* while its names are not (all) registered fails, and the graph is what it
\* was before the call.
C4_MissingArgumentFails ==
    /\ last.op = "projection_layer"
    /\ ~LastNamesWereRegistered
    /\ (last.args.proj_dim = None \/ ~last.args.have_rs)
    => Failed /\ graph = last.pre /\ random_state = last.rs_pre

C4_Witness ==
    /\ last.op = "projection_layer"
    /\ ~LastNamesWereRegistered
    /\ ~LastNamesWereAbsent
    /\ last.args.proj_dim = None
    /\ last.err = "AssertionError"

RECURSIVE WidthSum(_)
WidthSum(ts) ==
    IF ts = <<>> THEN 0 ELSE ts[1].shape[Len(ts[1].shape)] + WidthSum(Tail(ts))

\* C5: on first use (neither name registered, proj_dim and random source
\* supplied) a projection builder registers exactly two entries after the
\* existing ones: name_W of shape (d1 + ... + dk, n) and name_b of shape (n).
C5_FirstUseShapes ==
    /\ last.op \in ProjectionOps
    /\ LastNamesWereAbsent
    /\ last.args.proj_dim # None
    /\ last.args.have_rs
    => /\ last.err = "none"
       /\ Len(graph) = Len(last.pre) + 2
       /\ SubSeq(graph, 1, Len(last.pre)) = last.pre
       /\ graph[Len(last.pre) + 1].name = last.args.name \o "_W"
       /\ graph[Len(last.pre) + 1].shape =
              <<WidthSum(last.args.inputs), last.args.proj_dim[1]>>
       /\ graph[Len(last.pre) + 2].name = last.args.name \o "_b"
       /\ graph[Len(last.pre) + 2].shape = <<last.args.proj_dim[1]>>

\* Widths 3 and 5 into dimension 4: a weight of shape (8, 4), a bias (4).
C5_Witness ==
    /\ last.op = "tanh_layer"
    /\ LastNamesWereAbsent
    /\ [i \in DOMAIN last.args.inputs |-> LastDim(last.args.inputs[i].shape)]
           = <<3, 5>>
    /\ last.args.proj_dim = Some(4)
    /\ EntryOf(graph, last.args.name \o "_W").shape = <<8, 4>>
    /\ EntryOf(graph, last.args.name \o "_b").shape = <<4>>

\* ---- C6 and C7: the masked scans

\* Exact equality of two rows of floats: NaN equals nothing.
SameRow(a, b) == \A j \in DOMAIN a : a[j] # NaN /\ b[j] # NaN /\ a[j] = b[j]

\* The hidden state after timestep t; before the first it is h0.
HiddenAt(t) == IF t = 0 THEN h0_sym(scan.cell) ELSE scan.h[t]

\* Sample i is masked out on every timestep in (t1, t2].
MaskedOver(i, t1, t2) == \A t \in (t1 + 1)..t2 : scan.mask[t][i] = 0

\* Sample i has an encoder position to attend to.
HasEncoderPosition(i) ==
    scan.cell = "att_gru"
    => \E p \in DOMAIN scan.hidden_mask : scan.hidden_mask[p][i] = One

\* C6 as stated: in every cell family a sample whose mask is 0 at a timestep
\* has the hidden state of the timestep before, exactly, and so a sample
\* masked out on every step in (t1, t2] has at t2 its hidden state of t1.
C6_MaskedStepKeepsHidden ==
    \A t2 \in DOMAIN scan.h : \A t1 \in 0..(t2 - 1) :
        \A i \in DOMAIN scan.mask[t2] :
            MaskedOver(i, t1, t2) => SameRow(scan.h[t2][i], HiddenAt(t1)[i])

\* Where C6 fails: a sample of the attention cell that has no encoder
\* position to attend to is masked out at a timestep, and its hidden state
\* there is NaN.
C6_Witness ==
    /\ scan.cell = "att_gru"
    /\ \E t \in DOMAIN scan.h : \E i \in DOMAIN scan.mask[t] :
           /\ ~HasEncoderPosition(i)
           /\ scan.mask[t][i] = 0
           /\ \A j \in DOMAIN scan.h[t][i] : scan.h[t][i][j] = NaN

\* What the scans do keep of the masked-step property: it holds for the
\* samples that have an encoder position to attend to, which is every sample
\* of the cells without attention.
MaskedStepKeepsHiddenGivenEncoderPosition ==
    \A t2 \in DOMAIN scan.h : \A t1 \in 0..(t2 - 1) :
        \A i \in DOMAIN scan.mask[t2] :
            HasEncoderPosition(i) /\ MaskedOver(i, t1, t2)
            => SameRow(scan.h[t2][i], HiddenAt(t1)[i])

\* The sum of the weights of sample i at timestep t over the encoder
\* positions whose mask is 1 is 1: the numerators add up to the denominator.
WeightsSumToOne(t, i) ==
    LET w == scan.att[t][i]
        valid == [p \in DOMAIN w |->
                    IF scan.hidden_mask[p][i] = One THEN w[p].n ELSE 0]
    IN  /\ \A p \in DOMAIN w : ~IsNaNWeight(w[p])
        /\ SumOver(valid, Len(w)) = w[1].d

WeightsZeroWhereMasked(t, i) ==
    \A p \in DOMAIN scan.att[t][i] :
        scan.hidden_mask[p][i] = 0
        => ~IsNaNWeight(scan.att[t][i][p]) /\ scan.att[t][i][p].n = 0

\* C7 as stated: at every decoder step and for every sample, whatever its
\* encoder mask, the attention weights sum to 1 over the encoder positions
\* whose mask is 1 and are 0 at the positions whose mask is 0.
C7_AttentionWeightsNormalised ==
    scan.cell = "att_gru"
    => \A t \in DOMAIN scan.att : \A i \in DOMAIN scan.att[t] :
           WeightsSumToOne(t, i) /\ WeightsZeroWhereMasked(t, i)

\* Where C7 fails: the weights of a sample that has no encoder position to
\* attend to are 0 / 0 at every position.
C7_Witness ==
    /\ scan.cell = "att_gru"
    /\ \E t \in DOMAIN scan.att : \E i \in DOMAIN scan.att[t] :
           /\ ~HasEncoderPosition(i)
           /\ \A p \in DOMAIN scan.att[t][i] : IsNaNWeight(scan.att[t][i][p])

\* What the attention step does keep of the normalisation: it holds for
\* the samples that have an encoder position to attend to.
AttentionWeightsNormalisedGivenEncoderPosition ==
    scan.cell = "att_gru"
    => \A t \in DOMAIN scan.att : \A i \in DOMAIN scan.att[t] :
           HasEncoderPosition(i)
           => WeightsSumToOne(t, i) /\ WeightsZeroWhereMasked(t, i)

\* C8 as stated: a recurrent builder handed an input whose rank is not 3
\* fails, and the graph is what it was before the call.
C8_RankCheckedFirst ==
    /\ last.op \in RecurrentOps
    /\ \E i \in DOMAIN last.args.inputs : last.args.inputs[i].ndim # 3
    => Failed /\ graph = last.pre

\* C9 as stated: no seed handed to the noise generator is 0.
C9_SeedNeverZero ==
    \A i \in DOMAIN last.seeds : last.seeds[i] # WZero

\* C10 as stated: dropout_layer with p = 0 returns the concatenation of its
\* inputs.
C10_ZeroDropoutIsIdentity ==
    last.op = "dropout_layer" /\ last.args.p = 0
    => /\ last.err = "none"
       /\ last.out = concatenate(last.args.inputs, last.pre, last.args.name)

\* What dropout_layer does keep of the identity at p = 0: it holds when the
\* caller supplies a random source.
ZeroDropoutIsIdentityGivenSource ==
    last.op = "dropout_layer" /\ last.args.p = 0 /\ last.args.have_rs
    => /\ last.err = "none"
       /\ last.out = concatenate(last.args.inputs, last.pre, last.args.name)

\* ---- C11 and C12: dropout

\* The concatenated input of the last dropout_layer call.
DropoutInput == concatenate(last.args.inputs, last.pre, last.args.name)

\* The last call was dropout_layer on an input of rank neither 2 nor 3.
UnsupportedRank ==
    last.op = "dropout_layer" /\ DropoutInput.ndim \notin {2, 3}

\* C11 as stated: dropout_layer fails on every input of rank neither 2 nor
\* 3, whatever the dropout probability.
C11_Original == UnsupportedRank => Failed

\* C11: on an input of rank neither 2 nor 3 dropout_layer fails and returns
\* no tensor when p > 0; when p = 0 the rank is not looked at, and a call
\* given a random source returns the concatenated input.
C11_RankCheckedWhenDropping ==
    UnsupportedRank
    => /\ last.args.p > 0 => Failed /\ last.out = NoTensor
       /\ last.args.p = 0 /\ last.args.have_rs
          => last.err = "none" /\ last.out = DropoutInput

\* A rank-4 input is refused by the rank check of a dropping call.
C11_Witness ==
    /\ UnsupportedRank
    /\ last.args.p > 0
    /\ last.args.have_rs
    /\ last.err = "Rank"

\* Values of one unit, in hundredths.
UnitValues == {-100, 0, 50, 100}

\* The last call was dropout_layer with p > 0 and the switch at 0, and it
\* returned a tensor.
SwitchedOff ==
    /\ last.op = "dropout_layer"
    /\ last.args.switch = 0
    /\ last.args.p > 0
    /\ last.err = "none"

\* C12 as stated: with the switch at 0 and p > 0 every unit of the output
\* equals the unit of the input, whatever the binomial draw.
C12_SwitchOffIsIdentity ==
    SwitchedOff
    => \A x \in UnitValues, keep \in {0, 1} :
           dropout_value(last.out, x, keep) = x

\* Where C12 fails: with p = 0.5 and the switch at 0 a unit of value 1.0
\* comes out as 2.0.
C12_Witness ==
    /\ SwitchedOff
    /\ last.args.p = 50
    /\ dropout_value(last.out, 100, 1) = 200

\* What dropout does keep with the switch at 0: no unit is zeroed, every
\* unit is the input divided by retain_prob.
SwitchOffOnlyRescales ==
    SwitchedOff
    => \A x \in UnitValues, keep \in {0, 1} :
           dropout_value(last.out, x, keep)
               = (x * 100) \div (100 - last.args.p)

\* ---- C13: the width of the recurrent state

\* Where the recurrent matrices (Urz and U) stand in a builder's weight set.
RecurrentMatrices(op) ==
    IF op \in {"tanh_recurrent_layer", "lstm_recurrent_layer"} THEN {3}
    ELSE {3, 4}

\* The initial states, the recurrent matrices and the returned sequence of
\* the last call all have the feature width hidden_dim.
WidthIsHiddenDim ==
    /\ LastDim(last.out.shape) = last.args.hidden_dim
    /\ \A i \in DOMAIN last.out.h0 :
           LastDim(last.out.h0[i].shape) = last.args.hidden_dim
    /\ \A i \in RecurrentMatrices(last.op) :
           last.out.params[i].shape[1] = last.args.hidden_dim

\* C13 as stated: every recurrent builder that returns, returns a sequence
\* of feature width hidden_dim, built on initial states and recurrent
\* matrices of that width, whatever the width of the encoder states.
C13_WidthIsHiddenDim ==
    last.op \in RecurrentOps /\ last.err = "none" => WidthIsHiddenDim

\* Where C13 fails: the attention GRU called with hidden_dim = 2 on encoder
\* states of width 3 returns a sequence of width 3 on a 3 x 3 matrix U.
C13_Witness ==
    /\ last.op = "conditional_attention_gru_recurrent_layer"
    /\ last.err = "none"
    /\ last.args.hidden_dim = 2
    /\ LastDim(last.out.shape) = 3
    /\ last.out.params[4].shape = <<3, 3>>

\* What the builders do keep of C13: it holds for the tanh, GRU and LSTM
\* builders.
WidthIsHiddenDimWithoutEncoder ==
    last.op \in SimpleRecurrentOps /\ last.err = "none" => WidthIsHiddenDim

\* The decoder weights of conditional_gru_recurrent_layer have the width
\* hidden_dim, its initial state the width of the encoder states.
ConditionalGruWidths ==
    last.op = "conditional_gru_recurrent_layer" /\ last.err = "none"
    => /\ \A i \in {3, 4} :
              last.out.params[i].shape[1] = last.args.hidden_dim
       /\ LastDim(last.out.h0[1].shape) = 3

\* -------------------------------------------------------------------- C14

\* The names of the entries of kind "learned": what a caller collects as the
\* learned-parameter list.
LearnedNames(g) == {g[i].name : i \in {j \in DOMAIN g : g[j].kind = "learned"}}

\* fixed_projection_layer has just registered its three arrays.
FixedProjectionRegistered ==
    /\ last.op = "fixed_projection_layer"
    /\ last.err = "none"
    /\ LastNamesWereAbsent

\* C14 as stated: fixed_projection_layer registers the transform matrix as a
\* Fixed Constant node and the pre and post offsets as Learned Parameter
\* nodes, so that the offsets are in the learned-parameter list.
C14_Original ==
    FixedProjectionRegistered =>
        /\ EntryOf(graph, LastNames[1]).kind = "fixed"
        /\ {LastNames[2], LastNames[3]} \subseteq LearnedNames(graph)

\* C14: fixed_projection_layer registers the transform matrix and both
\* offsets as Fixed Constant nodes, whether the offsets are the caller's or
\* the default zeros; none of the three is in the learned-parameter list, and
\* the list is what it was before the call.
C14_AllThreeFixed ==
    FixedProjectionRegistered =>
        /\ \A i \in DOMAIN LastNames : EntryOf(graph, LastNames[i]).kind = "fixed"
        /\ LearnedNames(graph) = LearnedNames(last.pre)

\* A fixed projection with the caller's pre offset was registered in a graph
\* that already holds learned parameters.
C14_Witness ==
    /\ FixedProjectionRegistered
    /\ last.args.pre # None
    /\ LearnedNames(last.pre) # {}
    /\ EntryOf(graph, LastNames[2]).kind = "fixed"

\* -------------------------------------------------------------------- C15

\* Every entry of g is an entry of h under the same name, with the same
\* tensor, shape and kind.
EntriesKept(g, h) ==
    \A n \in GraphNames(g) :
        n \in GraphNames(h) /\ EntryOf(h, n) = EntryOf(g, n)

\* C15: whatever builder is called and whether it succeeds or fails, every
\* name that was in the graph before the call is in the graph after it,
\* bound to the same tensor, shape and kind.
C15_NoEntryDeletedOrRebound == [][EntriesKept(graph, graph')]_vars

\* A call failed after it had registered an entry, in a graph that held
\* the parameters of an earlier call under the same base name.
C15_Witness ==
    /\ Failed
    /\ Len(graph) > Len(last.pre)
    /\ \E n \in LearnedNames(last.pre) :
          SubSeq(n, 1, Len(last.args.name)) = last.args.name
    /\ EntriesKept(last.pre, graph)

\* -------------------------------------------------------------------- C16

WholeCache(fs, path) ==
    /\ Exists(fs, path)
    /\ \/ fs[path] = File("complete")
       \/ fs[path] = Zip({<<all_vocabs[i], "complete">> :
                             i \in DOMAIN all_vocabs})

FetchesOnlyWhenAbsent ==
    fetch.op # "none" =>
        /\ ~fetch.found /\ fetch.err = "none" =>
              fetch.downloads > 0 /\ WholeCache(files, fetch.out)
        /\ fetch.found =>
              fetch.downloads = 0 /\ fetch.err = "none" /\ files = fetch.pre
        /\ fetch.found <=> Exists(fetch.pre, fetch.path)

\* -------------------------------------------------------------------- C18

\* C18: embedding_layer fails when an index input is not a rank-1 int32
\* vector, with the graph and the random source as they were; otherwise, on
\* first use with a random source, it appends the one entry
\* name_embedding_W of shape (max_index, proj_dim) and returns a tensor of
\* shape (batch, number of index inputs, proj_dim).
C18_EmbeddingChecksThenRegisters ==
    last.op = "embedding_layer" =>
        /\ BadIndexInputs =>
              /\ Failed
              /\ last.err = "IndexType"
              /\ graph = last.pre
              /\ random_state = last.rs_pre
        /\ ~BadIndexInputs /\ LastNamesWereAbsent /\ last.args.have_rs =>
              /\ last.err = "none"
              /\ Len(graph) = Len(last.pre) + 1
              /\ EntriesKept(last.pre, graph)
              /\ graph[Len(graph)].name = last.args.name \o "_embedding_W"
              /\ graph[Len(graph)].kind = "learned"
              /\ graph[Len(graph)].shape =
                     <<last.args.max_index, last.args.proj_dim[1]>>
              /\ last.out.shape =
                     <<last.args.inputs[1].shape[1], Len(last.args.inputs),
                       last.args.proj_dim[1]>>

\* After an embedding matrix was registered on first use, a first use under
\* another name with an input that is no int32 vector failed and left the
\* graph and the random source alone.
C18_Witness ==
    /\ BadIndexInputs
    /\ Failed
    /\ LastNamesWereAbsent
    /\ last.args.have_rs
    /\ graph = last.pre
    /\ random_state = last.rs_pre
    /\ random_state.pos > 0
    /\ \E i \in DOMAIN graph :
          /\ graph[i].kind = "learned"
          /\ graph[i].shape = <<5, 2>>
          /\ i = Len(graph)

\* -------------------------------------------------------------------- C19

\* The LSTM cell state after timestep t; before the first it is zero.
CellAt(t) == IF t = 0 THEN Zeros(2, 2) ELSE scan.c[t]

\* Two rows of attention weights are the same numbers: none is NaN and the
\* quotients are equal.
SameWeights(a, b) ==
    \A p \in DOMAIN a :
        /\ ~IsNaNWeight(a[p])
        /\ ~IsNaNWeight(b[p])
        /\ a[p].n * b[p].d = b[p].n * a[p].d

\* C19 as stated: at a timestep where the mask of sample i is 0, every
\* component of the recurrent state of sample i is what it was at the
\* timestep before: the hidden state in every cell, the cell state of the
\* LSTM, the context and the attention weights of the attention GRU.
C19_MaskedStepKeepsState ==
    \A t \in DOMAIN scan.h : \A i \in DOMAIN scan.mask[t] :
        scan.mask[t][i] = 0 =>
            /\ SameRow(scan.h[t][i], HiddenAt(t - 1)[i])
            /\ scan.cell = "lstm" => SameRow(scan.c[t][i], CellAt(t - 1)[i])
            /\ scan.cell = "att_gru" /\ t > 1 =>
                  /\ SameRow(scan.ctx[t][i], scan.ctx[t - 1][i])
                  /\ SameWeights(scan.att[t][i], scan.att[t - 1][i])

\* Where C19 fails: a sample of the attention cell that has encoder
\* positions to attend to is masked out at a timestep; its hidden state is
\* kept, and its attention weights are not those of the timestep before.
C19_Witness ==
    /\ scan.cell = "att_gru"
    /\ \E t \in DOMAIN scan.h : \E i \in DOMAIN scan.mask[t] :
           /\ t > 1
           /\ scan.mask[t][i] = 0
           /\ SameRow(scan.h[t][i], scan.h[t - 1][i])
           /\ \A p \in DOMAIN scan.att[t][i] :
                 /\ ~IsNaNWeight(scan.att[t][i][p])
                 /\ ~IsNaNWeight(scan.att[t - 1][i][p])
           /\ ~SameWeights(scan.att[t][i], scan.att[t - 1][i])

\* What the scans keep at a masked step: the hidden state and the LSTM's
\* cell state of a sample that has an encoder position to attend to.
MaskedStepKeepsHiddenAndCell ==
    \A t \in DOMAIN scan.h : \A i \in DOMAIN scan.mask[t] :
        scan.mask[t][i] = 0 /\ HasEncoderPosition(i) =>
            /\ SameRow(scan.h[t][i], HiddenAt(t - 1)[i])
            /\ scan.cell = "lstm" => SameRow(scan.c[t][i], CellAt(t - 1)[i])

\* -------------------------------------------------------------------- C20

\* The step input of the GRU scan at timestep t, sample i.
GruInput(t, i) == projected_input(conc_input(scan.X, t), Params(3))[i]

\* Component j of the product of the row v with the matrix M.
RowTimes(v, M, j) ==
    SumOver([k \in DOMAIN v |-> Times(v[k], M[k][j])], Len(v))

\* Component j of gate n (0 the reset gate r, 1 the update gate z) of sample
\* i at timestep t: the sigmoid of slice n of x_t + h_tm1 . Urz.
GruGate(t, i, n, j) ==
    LET h_tm1 == HiddenAt(t - 1)[i]
        col == n * Len(h_tm1) + j
    IN  sigmoid(Plus(GruInput(t, i)[col], RowTimes(h_tm1, Params(3).Urz, col)))

\* Component j of the candidate with the reset gate applied to h_tm1 before
\* the product with U: tanh(slice2(x_t) + (r * h_tm1) . U).
CandidateResetBefore(t, i, j) ==
    LET h_tm1 == HiddenAt(t - 1)[i]
        gated == [k \in DOMAIN h_tm1 |-> Times(GruGate(t, i, 0, k), h_tm1[k])]
    IN  tanh(Plus(GruInput(t, i)[2 * Len(h_tm1) + j],
                  RowTimes(gated, CandidateU, j)))

\* Component j of the candidate with the reset gate applied to the product:
\* tanh(slice2(x_t) + r * (h_tm1 . U)).
CandidateResetAfter(t, i, j) ==
    LET h_tm1 == HiddenAt(t - 1)[i]
    IN  tanh(Plus(GruInput(t, i)[2 * Len(h_tm1) + j],
                  Times(GruGate(t, i, 0, j), RowTimes(h_tm1, CandidateU, j))))

\* z * h_tm1 + (1 - z) * candidate, component j.
GruBlend(t, i, j, candidate) ==
    LET z == GruGate(t, i, 1, j)
    IN  Plus(Times(z, HiddenAt(t - 1)[i][j]), Times(Minus(One, z), candidate))

\* C20 as stated: the unmasked new state of gru_recurrent_layer is
\* z * h_tm1 + (1 - z) * tanh(slice2(x_t) + r * (h_tm1 . U)), with r and z
\* the sigmoids of slices 0 and 1 of x_t + h_tm1 . Urz.
C20_Original ==
    scan.cell = "gru" =>
        \A t \in DOMAIN scan.h : \A i \in DOMAIN scan.mask[t] :
            scan.mask[t][i] = One =>
                \A j \in DOMAIN scan.h[t][i] :
                    scan.h[t][i][j] =
                        GruBlend(t, i, j, CandidateResetAfter(t, i, j))

\* C20: the unmasked new state of gru_recurrent_layer is
\* z * h_tm1 + (1 - z) * tanh(slice2(x_t) + (r * h_tm1) . U): the reset gate
\* multiplies h_tm1 elementwise before the product with U; r and z are the
\* sigmoids of slices 0 and 1 of x_t + h_tm1 . Urz.
C20_ResetGateBeforeProduct ==
    scan.cell = "gru" =>
        \A t \in DOMAIN scan.h : \A i \in DOMAIN scan.mask[t] :
            scan.mask[t][i] = One =>
                \A j \in DOMAIN scan.h[t][i] :
                    scan.h[t][i][j] =
                        GruBlend(t, i, j, CandidateResetBefore(t, i, j))

\* An unmasked GRU step from a hidden state that is not zero, at which the
\* two placements of the reset gate give different states.
C20_Witness ==
    /\ scan.cell = "gru"
    /\ \E t \in DOMAIN scan.h : \E i \in DOMAIN scan.mask[t] :
           /\ t > 1
           /\ scan.mask[t][i] = One
           /\ \E j \in DOMAIN scan.h[t][i] :
                 /\ HiddenAt(t - 1)[i][j] # 0
                 /\ scan.h[t][i][j] =
                        GruBlend(t, i, j, CandidateResetBefore(t, i, j))
                 /\ scan.h[t][i][j] #
                        GruBlend(t, i, j, CandidateResetAfter(t, i, j))

\* -------------------------------------------------------------------- C21

\* The scan reads the shifted target sequence.
ShiftedCells == {"cond_gru", "att_gru"}

\* C21: the decoder input of the conditional builders (computed as
\* shift_layer computes it) is the target sequence shifted right by one
\* timestep: the first timestep fed in is all zeros, timestep t > 1 is the
\* target at t - 1 with the target's rows and columns, and a scan that has
\* run to its end has read as many timesteps as the target has, the last
\* target timestep not among them.
C21_DecoderInputShifted ==
    scan.cell \in ShiftedCells =>
        /\ Len(scan.x) <= Len(conc_output(scan.X))
        /\ \A t \in DOMAIN scan.x :
              /\ DOMAIN scan.x[t] = DOMAIN conc_output(scan.X)[t]
              /\ \A i \in DOMAIN scan.x[t] :
                    /\ DOMAIN scan.x[t][i] = DOMAIN conc_output(scan.X)[t][i]
                    /\ t = 1 => \A j \in DOMAIN scan.x[t][i] : scan.x[t][i][j] = 0
              /\ t > 1 => scan.x[t] = conc_output(scan.X)[t - 1]
        /\ Len(scan.h) = MaxT => Len(scan.x) = Len(conc_output(scan.X))

\* A conditional scan has run to its end over a target whose first timestep
\* is not zero and whose last timestep differs from every timestep fed in.
C21_Witness ==
    /\ scan.cell \in ShiftedCells
    /\ Len(scan.x) = MaxT
    /\ conc_output(scan.X)[1] # Zeros(2, 2)
    /\ scan.x[1] = Zeros(2, 2)
    /\ scan.x[MaxT] = conc_output(scan.X)[MaxT - 1]
    /\ scan.x[MaxT] # conc_output(scan.X)[MaxT]

\* -------------------------------------------------------------------- C22

\* The names of the zero initial states of the last (tanh, GRU or LSTM)
\* call.
StateNames ==
    Suffixed(last.args.name,
             IF last.op = "lstm_recurrent_layer" THEN <<"_h0", "_c0">>
             ELSE <<"_h0">>)

\* A tanh, GRU or LSTM builder was called, not strict, with inputs of rank
\* 3, in a graph that holds its initial states.
StatesWereRegistered ==
    /\ last.op \in SimpleRecurrentOps
    /\ ~last.args.strict
    /\ \A i \in DOMAIN last.args.inputs : last.args.inputs[i].ndim = 3
    /\ names_in_graph(StateNames, last.pre)

\* C22 as stated: the tanh, GRU and LSTM builders register name_h0 (and
\* name_c0) only when it is absent and do not try to register it again when
\* it is present, so a call that is not strict never fails on a duplicate
\* name.
C22_InitialStateCreatedOnce ==
    StatesWereRegistered => last.err # "DuplicateName"

\* Where C22 fails: a call that is not strict, in a graph that holds the
\* initial states and every weight of its base name, failed on the
\* duplicate name of the initial state.
C22_Witness ==
    /\ StatesWereRegistered
    /\ LastNamesWereRegistered
    /\ last.err = "DuplicateName"
    /\ graph = last.pre

\* What holds: when the initial states are registered the builder fails,
\* strict or not.
RegisteredStatesAlwaysFail ==
    /\ last.op \in SimpleRecurrentOps
    /\ \A i \in DOMAIN last.args.inputs : last.args.inputs[i].ndim = 3
    /\ names_in_graph(StateNames, last.pre)
    => last.err = "DuplicateName" /\ graph = last.pre

\* -------------------------------------------------------------------- C23

\* The entries of the GRU called with the base name `name`.
GruNames(name) ==
    Suffixed(name, <<"_h0", "_gru_rec_step_W", "_gru_rec_step_b",
                     "_gru_rec_step_Urz", "_gru_rec_step_U">>)

\* bidirectional_gru_recurrent_layer failed in its backward GRU: it had
\* inputs of rank 3 and a random source, and none of the forward GRU's
\* names was in the graph, so the forward GRU was built.
BackwardFailed ==
    /\ last.op = "bidirectional_gru_recurrent_layer"
    /\ Failed
    /\ last.args.have_rs
    /\ \A i \in DOMAIN last.args.inputs : last.args.inputs[i].ndim = 3
    /\ \A n \in GraphNames(last.pre) :
          \A i \in DOMAIN GruNames(last.args.name \o "_f") :
              n # GruNames(last.args.name \o "_f")[i]

\* C23: when bidirectional_gru_recurrent_layer fails while building the
\* backward GRU, the forward GRU's entries name_f_h0 and
\* name_f_gru_rec_step_{W,b,Urz,U} stay registered, after the entries the
\* graph held before the call.
C23_NoRollback ==
    BackwardFailed =>
        /\ names_in_graph(GruNames(last.args.name \o "_f"), graph)
        /\ EntriesKept(last.pre, graph)
        /\ Len(graph) = Len(last.pre) + Len(GruNames(last.args.name \o "_f"))

\* The backward GRU failed on the name_r_h0 an earlier call had registered,
\* and the forward GRU's entries are in the graph.
C23_Witness ==
    /\ BackwardFailed
    /\ last.err = "DuplicateName"
    /\ (last.args.name \o "_r_h0") \in GraphNames(last.pre)
    /\ names_in_graph(GruNames(last.args.name \o "_f"), graph)

\* -------------------------------------------------------------------- C24

\* _get_stories returned, and the stories of the file it read, flattened,
\* before any is discarded.
GotStories == dataset.op = "_get_stories" /\ dataset.out.err = "none"

AllStories ==
    get_stories(dataset.lines, dataset.args.only_supporting, None).data

\* C24: _get_stories with max_length supplied discards exactly the stories
\* of more than max_length tokens (a story of exactly max_length tokens is
\* kept), and with max_length absent it discards none.
C24_DiscardsOnlyLongerStories ==
    GotStories =>
        dataset.out.data =
            SelectSeq(AllStories,
                      LAMBDA r : \/ dataset.args.max_length = None
                                 \/ Len(r.story) <= dataset.args.max_length[1])

\* max_length was supplied and positive, the file has a story of exactly
\* max_length tokens, and the result does not hold it.
C24_Witness ==
    /\ GotStories
    /\ dataset.args.max_length # None
    /\ dataset.args.max_length[1] > 0
    /\ \E i \in DOMAIN AllStories :
          /\ Len(AllStories[i].story) = dataset.args.max_length[1]
          /\ \A j \in DOMAIN dataset.out.data :
                dataset.out.data[j] # AllStories[i]

\* What holds: a supplied max_length other than 0 keeps the stories of
\* fewer than max_length tokens, in order; None and 0 keep every story.
KeepsShorterStories ==
    GotStories =>
        dataset.out.data =
            SelectSeq(AllStories,
                      LAMBDA r : \/ dataset.args.max_length \in {None, Some(0)}
                                 \/ Len(r.story) < dataset.args.max_length[1])

\* -------------------------------------------------------------------- C25

\* _parse_stories returned.
ParsedStories == dataset.op = "_parse_stories" /\ dataset.out.err = "none"

\* The tokens of each line of a sequence of lines.
Texts(lines) == [i \in DOMAIN lines |-> lines[i].text]

\* The statement numbered nid in the story the k-th line belongs to.
StatementOf(lines, k, nid) ==
    lines[CHOOSE j \in StoryStart(lines, k)..(k - 1) :
              lines[j].nid = nid /\ ~lines[j].tab].text

\* The substory of the question at the k-th line, read off the file: the
\* statements its supporting ids name, or every statement of its story
\* before it.
SubstoryOf(lines, k, only_supporting) ==
    IF only_supporting
    THEN [m \in DOMAIN lines[k].supporting |->
             StatementOf(lines, k, lines[k].supporting[m])]
    ELSE Texts(SelectSeq(SubSeq(lines, StoryStart(lines, k), k - 1),
                         LAMBDA l : ~l.tab))

\* C25: _parse_stories emits one record per question line, in order, with
\* the question's tokens and answer; its substory is the statements named
\* by the supporting ids when only_supporting is true, otherwise every
\* statement of the current story seen so far, in order, and none of an
\* earlier story; the story it ends with has one slot per line of the
\* current story, a placeholder at each question, so line ids index it.
C25_ParseStoriesStateMachine ==
    ParsedStories =>
        LET lines == dataset.lines
            n == Len(lines)
            questions == {k \in 1..n : lines[k].tab}
            open == IF n = 0 THEN <<>>
                    ELSE SubSeq(lines, StoryStart(lines, n), n)
        IN  /\ Len(dataset.out.data) = Cardinality(questions)
            /\ \A k \in questions :
                  dataset.out.data[Cardinality({j \in questions : j <= k})] =
                      [story |-> SubstoryOf(lines, k,
                                            dataset.args.only_supporting),
                       q |-> lines[k].text, a |-> lines[k].a]
            /\ Len(dataset.out.story) = Len(open)
            /\ \A i \in DOMAIN open :
                  /\ open[i].nid = i
                  /\ dataset.out.story[i] =
                         IF open[i].tab THEN <<>> ELSE open[i].text

\* With only_supporting, a question names a statement that follows an
\* earlier question of the same story, and two records were emitted.
C25_Witness ==
    /\ ParsedStories
    /\ dataset.args.only_supporting
    /\ Len(dataset.out.data) = 2
    /\ \E k \in DOMAIN dataset.lines, j \in DOMAIN dataset.lines :
          /\ dataset.lines[k].tab /\ dataset.lines[j].tab
          /\ StoryStart(dataset.lines, k) <= j /\ j < k
          /\ \E m \in DOMAIN dataset.lines[k].supporting :
                dataset.lines[k].supporting[m] > dataset.lines[j].nid

\* -------------------------------------------------------------------- C29

FetchOps == {"fetch_mnist", "fetch_tfd", "fetch_babi"}

\* The index arrays a fetch_* call returned (fetch_babi returns no test
\* indices).
IndexArrays ==
    IF dataset.op = "fetch_babi"
    THEN <<dataset.out.train_indices, dataset.out.valid_indices>>
    ELSE <<dataset.out.train_indices, dataset.out.valid_indices,
           dataset.out.test_indices>>

\* The arrays are pairwise disjoint and together hold every index from 0 to
\* n_samples - 1 and no other; each is an ascending run of consecutive
\* integers, being an arange moved by a constant.
Partition(arrays, n_samples) ==
    /\ \A i, j \in DOMAIN arrays :
          i # j => Indices(arrays[i]) \cap Indices(arrays[j]) = {}
    /\ \A k \in 0..(n_samples - 1) :
          \E i \in DOMAIN arrays : k \in Indices(arrays[i])
    /\ \A i \in DOMAIN arrays : Indices(arrays[i]) \subseteq 0..(n_samples - 1)

\* C29: the index arrays returned by fetch_mnist, fetch_tfd and fetch_babi
\* partition the samples: pairwise disjoint, each a contiguous ascending
\* range, together covering 0 .. n_samples - 1 with no index left out.
C29_IndicesPartitionSamples ==
    dataset.op \in FetchOps /\ dataset.out.err = "none" =>
        Partition(IndexArrays, dataset.out.n_samples)

\* fetch_tfd returned, and sample 90000 is in none of its three arrays.
C29_Witness ==
    /\ dataset.op = "fetch_tfd"
    /\ dataset.out.err = "none"
    /\ 90000 < dataset.out.n_samples
    /\ \A i \in DOMAIN IndexArrays : 90000 \notin Indices(IndexArrays[i])

\* What holds: fetch_mnist's and fetch_babi's arrays partition the samples,
\* and fetch_tfd's are disjoint and leave out sample 90000 only.
PartitionButTfd ==
    dataset.op \in FetchOps /\ dataset.out.err = "none" =>
        IF dataset.op = "fetch_tfd"
        THEN /\ \A i, j \in DOMAIN IndexArrays :
                   i # j => Indices(IndexArrays[i])
                                \cap Indices(IndexArrays[j]) = {}
             /\ \A k \in 0..(dataset.out.n_samples - 1) :
                   k # 90000 <=>
                       \E i \in DOMAIN IndexArrays :
                           k \in Indices(IndexArrays[i])
        ELSE Partition(IndexArrays, dataset.out.n_samples)

\* -------------------------------------------------------------------- C26

\* 2**31, and the signed 32-bit integers -2**31 .. 2**31 - 1.
TwoTo31 == [h |-> 32768, l |-> 0]

FitsInt32(w) == WLeq(WNeg(TwoTo31), w) /\ WLess(w, TwoTo31)

\* Within [-2147462579, 2147462579], the range of the first draw.
InFirstRange(w) ==
    WLeq(WNeg(Wide(SeedBound)), w) /\ WLeq(w, Wide(SeedBound))

\* C26: the first seed a stochastic layer draws lies in
\* [-2147462579, 2147462579], a seed redrawn after a 0 draw lies in the
\* 32-bit integer range, and so every seed handed to the noise generator
\* fits in a signed 32-bit integer.
C26_SeedFitsInt32 ==
    \A i \in DOMAIN last.seeds : FitsInt32(last.seeds[i])

\* A layer handed the noise generator a redrawn seed of 2**31 or more, or
\* of less than -2**31.
C26_Witness ==
    /\ last.err = "none"
    /\ \E i \in DOMAIN last.seeds :
          /\ ~InFirstRange(last.seeds[i])
          /\ \/ WLeq(TwoTo31, last.seeds[i])
             \/ WLess(last.seeds[i], WNeg(TwoTo31))

\* What holds: a seed is a first draw other than 0, within
\* [-2147462579, 2147462578], or a redraw within [-2**32, 2**32 - 1].
SeedFitsInt33 ==
    \A i \in DOMAIN last.seeds :
        \/ InFirstRange(last.seeds[i]) /\ last.seeds[i] # Wide(SeedBound)
        \/ WLeq(WNeg(TwoTo32), last.seeds[i]) /\ WLess(last.seeds[i], TwoTo32)

\* -------------------------------------------------------------------- C27

\* The last call returned a layer built on its parameters.
BuiltOnParameters ==
    /\ last.op \in {"projection_layer", "embedding_layer"}
    /\ last.err = "none"

\* The entries the last call fetched that a call with another base name
\* had registered.
Borrowed ==
    {i \in DOMAIN graph :
        /\ \E k \in DOMAIN LastNames : graph[i].name = LastNames[k]
        /\ last.owners[i] # last.args.name}

\* C27: parameters are never shared between layers of different base
\* names: no builder call fetches and uses a graph entry that a call with a
\* different base name registered.
C27_NoSharingAcrossBaseNames == BuiltOnParameters => Borrowed = {}

\* embedding_layer "n" returned a lookup into n_embedding_W, the weight
\* that projection_layer "n_embedding" registered.
C27_Witness ==
    /\ BuiltOnParameters
    /\ last.op = "embedding_layer"
    /\ last.args.name = "n"
    /\ \E i \in Borrowed :
          /\ graph[i].name = "n_embedding_W"
          /\ last.owners[i] = "n_embedding"
          /\ last.out.W = EntryOf(graph, "n_embedding_W")

\* What holds: a strict call borrows nothing, and neither does a call that
\* found one of its names missing.
StrictCallsBorrowNothing ==
    BuiltOnParameters /\ (last.args.strict \/ ~LastNamesWereRegistered)
        => Borrowed = {}

\* -------------------------------------------------------------------- C28

\* The builders that keep two or more parameters in the graph.
ManyParameterOps ==
    ProjectionOps \cup {"fixed_projection_layer"} \cup RecurrentOps

\* When the last call started, some of its parameter names were in the
\* graph and some were not.
SomeNamesWereRegistered ==
    /\ last.op \in ManyParameterOps
    /\ \E k \in DOMAIN LastNames : LastNames[k] \in GraphNames(last.pre)
    /\ \E k \in DOMAIN LastNames : LastNames[k] \notin GraphNames(last.pre)

\* C28: when only a proper, non-empty subset of a builder's parameter names
\* is in the graph, the call fails whatever strict is; it returns no tensor
\* and every entry the graph held is still there, bound as it was.
C28_PartialNamesFail ==
    SomeNamesWereRegistered =>
        /\ Failed
        /\ EntriesKept(last.pre, graph)

\* gru_recurrent_layer, not strict and given a random source and inputs
\* of rank 3, found name_gru_rec_step_W and name_gru_rec_step_b registered
\* and name_gru_rec_step_U not, and failed.
C28_Witness ==
    /\ SomeNamesWereRegistered
    /\ last.op = "gru_recurrent_layer"
    /\ ~last.args.strict
    /\ last.args.have_rs
    /\ \A i \in DOMAIN last.args.inputs : last.args.inputs[i].ndim = 3
    /\ (last.args.name \o "_gru_rec_step_W") \in GraphNames(last.pre)
    /\ (last.args.name \o "_gru_rec_step_b") \in GraphNames(last.pre)
    /\ (last.args.name \o "_gru_rec_step_U") \notin GraphNames(last.pre)
    /\ Failed

\* -------------------------------------------------------------------- C30

\* C30: a file at the cache path of a check_fetch_* call is complete, and a
\* call whose download was interrupted or failed part-way (for uci_words,
\* after only some of the five vocabularies) leaves no file at the cache
\* path.
C30_NoPartialCacheFile ==
    fetch.op # "none" =>
        /\ Exists(files, fetch.path) => WholeCache(files, fetch.path)
        /\ fetch.err # "none" => ~Exists(files, fetch.path)

\* A call found no file, its download broke off, and it left a file at the
\* cache path that is not the whole download.
C30_Witness ==
    /\ fetch.op # "none"
    /\ ~fetch.found
    /\ fetch.err # "none"
    /\ ~Exists(fetch.pre, fetch.path)
    /\ Exists(files, fetch.path)
    /\ ~WholeCache(files, fetch.path)

\* What holds: a call that fails leaves either no file at the cache path
\* (the server refused before the local file was opened) or a partial one,
\* never the whole download.
FailedFetchLeavesNoWholeFile ==
    fetch.op # "none" /\ fetch.err # "none" =>
        ~WholeCache(files, fetch.path)

====
